---- MODULE Spec2Model ----
(***************************************************************************)
(* A model of src/main.py: the users.json ledger (load_users, save_users,  *)
(* get_user, User.deposit, User.withdraw, update_balance), the three game  *)
(* registries (active_rocket_games, active_matrix_games,                   *)
(* active_dice_games) with their handlers, the update_multiplier job       *)
(* chain and the check_invoices job.                                       *)
(*                                                                         *)
(* Money is an integer number of units, Dollar units to the dollar; the    *)
(* unit is 5^-9 dollar so that stake * 1.2^k is a whole number of units    *)
(* for every whole-dollar stake and every k of MATRIX_MULTIPLIERS.         *)
(* Time is an integer number of seconds.  Multipliers of the rocket game   *)
(* and probabilities are integers in thousandths.                          *)
(*                                                                         *)
(* Specifications:                                                         *)
(*   SpecLedger  User.deposit and User.withdraw on one account             *)
(*   SpecPay     invoices: deposit_amount, the provider, check_invoices    *)
(*   SpecRocket, SpecMatrix, SpecDice                                      *)
(*               one game each, real and virtual money, two users          *)
(*   Spec        the three games together, real money                      *)
(*   SpecConc    check_invoices and update_multiplier running on the job   *)
(*               queue's threads beside the dispatcher's handlers          *)
(*   SpecOwner   two funded users pressing each other's buttons            *)
(*   SpecRebet   Crash after a bet has replaced a running bet              *)
(*   SpecFile    save_users split into truncation and dump, beside the     *)
(*               check_invoices job                                        *)
(*   SpecCrashPoint                                                        *)
(*               the crash point of rocket_bet for every draw              *)
(*   SpecStake   the three bet handlers on the message texts of a stake    *)
(*   SpecTicks   Crash under fair scheduling of the clock and of every     *)
(*               update_multiplier job                                     *)
(*   SpecLadder  the Ladder with the bomb position of each keyboard        *)
(*   SpecAdd     /add and the admin's virtual credit, on the texts of an   *)
(*               amount                                                    *)
(*   SpecAnswer  check_invoices on every answer of getInvoices             *)
(*   SpecRetry   check_invoices run after run, a credit raising now and    *)
(*               then, under fair scheduling of the job                    *)
(*   SpecShare   a ledger operation cut between load_users and save_users  *)
(*               beside the check_invoices job                             *)
(*   SpecAdmin   the two admin credit handlers on every sender, name and   *)
(*               amount                                                    *)
(***************************************************************************)
EXTENDS Integers, Sequences, FiniteSets, TLC

\* ------------------------------------------------------------------ units

Dollar == 5 * 5 * 5 * 5 * 5 * 5 * 5 * 5 * 5


None == 0 - 1

\* float("nan"), the value float() returns for the message text "nan": it
\* is no amount of units, and every comparison with it is false
NaN == 0 - 2

\* a < b on floats
Less(a, b) == a # NaN /\ b # NaN /\ a < b

\* a <= b and a + b on floats
LessEq(a, b) == a # NaN /\ b # NaN /\ a <= b

Plus(a, b) == IF a = NaN \/ b = NaN THEN NaN ELSE a + b

\* ------------------------------------------------------- program constants

\* DAILY_VIRTUAL_LIMIT = 100.0 (dollars)
DAILY_VIRTUAL_LIMIT == 100

\* VIRTUAL_DEPOSIT_RESET = timedelta(days=1), in seconds
VIRTUAL_DEPOSIT_RESET == 86400

\* MAX_BET = int(os.getenv('MAX_BET', 1000)) (dollars)
MAX_BET == 1000

\* MIN_BET = float(os.getenv('MIN_BET', 0.1)): the least whole number of
\* units that is not below 0.1 dollar (0.1 dollar is 195312.5 units)
MIN_BET == (Dollar + 9) \div 10

\* DICE_MULTIPLIERS = {1: 2.0, 2: 6.0}
DICE_MULTIPLIERS == [t \in {1, 2} |-> IF t = 1 THEN 2 ELSE 6]

\* len(MATRIX_MULTIPLIERS)
MATRIX_LEVELS == 10

\* ADMIN_IDS, from the environment
ADMIN_IDS == {1}

\* ------------------------------------------------------------------ bounds

\* the clock runs over days 0..MaxDays and, in steps of ClockStep seconds,
\* over the first MaxSecs seconds of each day
ClockStep == 1 + 1

MaxDays == 1

MaxSecs == 4

\* credits to the real balance from outside (admin credit, invoices) are
\* tried while they leave it at or below this many dollars
MaxBalanceDollars == 20

\* the user identifiers of the model
UserIds == {1, 2}

\* the Telegram username of each user (update.effective_user.username)
TelegramName(uid) == IF uid = 1 THEN "Al" ELSE "bo"

BalanceTypes == {"balance", "virtual_balance"}

\* ------------------------------------------------------------ users.json

\* str.lower() on the usernames of the model
Lower(s) == IF s = "Al" THEN "al" ELSE s

NewRecord(uname, use_virtual) ==
    [balance |-> 0, virtual_balance |-> 0, username |-> uname,
     use_virtual |-> use_virtual, daily_virtual_deposited |-> 0,
     last_virtual_deposit_time |-> None]

\* the content of users.json between open(USER_FILE, "w") of save_users
\* (line 133), which empties the file, and the end of json.dump, or after a
\* json.dump that failed part-way: text that json.load does not parse
Truncated == [x \in {0} |-> "truncated"]

\* load_users: the parsed file; float() of a stored number is that number.
\* A file that does not parse is replaced by {} and {} is returned (lines
\* 113-117).
load_users(f) == IF f = Truncated THEN << >> ELSE f

\* save_users: every record is written with its username lowercased
save_users(users) ==
    [u \in DOMAIN users |-> [users[u] EXCEPT !.username = Lower(@)]]

\* get_balance(user_id, balance_type)
get_balance(f, uid, balance_type) ==
    IF uid \in DOMAIN load_users(f) THEN load_users(f)[uid][balance_type] ELSE 0

\* update_balance(user_id, amount, balance_type): load, add, save
update_balance(f, uid, amount, balance_type) ==
    LET users == load_users(f)
        users1 == IF uid \in DOMAIN users THEN users
                  ELSE users @@ (uid :> NewRecord("", FALSE))
    IN  save_users([users1 EXCEPT ![uid][balance_type] = @ + amount])

\* get_user(user_id, username): creates the record on first reference and
\* returns a fresh User object read from the file.  uname = "" stands for
\* username = None.
get_user(f, uid, uname) ==
    LET users == load_users(f)
        created == uid \notin DOMAIN users
        users1 == IF created THEN users @@ (uid :> NewRecord(uname, FALSE))
                  ELSE users
        f1 == IF created THEN save_users(users1) ELSE f
        ud == users1[uid]
        named == uname # "" /\ ud.username = ""
        users2 == IF named THEN [users1 EXCEPT ![uid].username = uname]
                  ELSE users1
        f2 == IF named THEN save_users(users2) ELSE f1
    IN  [file |-> f2,
         user |-> [user_id |-> uid,
                   username |-> IF named THEN uname ELSE ud.username,
                   balance |-> ud.balance,
                   virtual_balance |-> ud.virtual_balance,
                   use_virtual |-> ud.use_virtual,
                   daily_virtual_deposited |-> ud.daily_virtual_deposited,
                   last_virtual_deposit_time |-> ud.last_virtual_deposit_time,
                   total_bets |-> 0, total_wins |-> 0,
                   is_admin |-> uid \in ADMIN_IDS]]

\* the record User.deposit works on: users.setdefault(str(self.user_id), ...)
deposit_record(f, user) ==
    IF user.user_id \in DOMAIN load_users(f) THEN load_users(f)[user.user_id]
    ELSE NewRecord(user.username, user.use_virtual)

\* User.deposit, lines 194-201: has the 24-hour window elapsed at time t
WindowElapsedWrong(user, t) ==
    /\ user.last_virtual_deposit_time # None
    /\ FALSE

WindowElapsed(user, t) ==
    /\ user.last_virtual_deposit_time # None
    /\ t - user.last_virtual_deposit_time >= VIRTUAL_DEPOSIT_RESET

\* User.deposit, line 202: the daily cap test, after the counter was reset
\* when the window had elapsed
OverLimit(user, amount, t) ==
    Less(DAILY_VIRTUAL_LIMIT * Dollar,
         Plus(IF WindowElapsed(user, t) THEN 0 ELSE user.daily_virtual_deposited,
              amount))

\* User.deposit, lines 203-211: the wait the ValueError reports at time t,
\* hours and minutes of VIRTUAL_DEPOSIT_RESET minus the time passed since
\* self.last_virtual_deposit_time (divmod floors, as \div and % do)
TimeLeft(user, t) ==
    VIRTUAL_DEPOSIT_RESET
      - (IF user.last_virtual_deposit_time # None
         THEN t - user.last_virtual_deposit_time ELSE 0)

ReportedWait(user, t) ==
    [hours |-> TimeLeft(user, t) \div 3600,
     minutes |-> (TimeLeft(user, t) % 3600) \div 60]

NoWait == [hours |-> 0, minutes |-> 0]

\* the file after the ValueError of line 210: the records changed in
\* memory by lines 194-201 are dropped with the exception, save_users (line
\* 220) is not reached
RaisedSaved(f, users) == save_users(users)

Raised(f, users) == f

\* User.deposit(amount, balance_type) at time t.  ok = FALSE is the
\* ValueError of line 210; nothing is saved then.
deposit(f, user, amount, balance_type, t) ==
    LET users == load_users(f)
        uid == user.user_id
        ud0 == deposit_record(f, user)
        elapsed == WindowElapsed(user, t)
        \* lines 194-201
        ud1 == IF balance_type # "virtual_balance" THEN ud0
               ELSE IF user.last_virtual_deposit_time = None
                    THEN [ud0 EXCEPT !.last_virtual_deposit_time = t]
               ELSE IF elapsed
                    THEN [ud0 EXCEPT !.daily_virtual_deposited = 0,
                                     !.last_virtual_deposit_time = t]
               ELSE ud0
        self1 == IF balance_type = "virtual_balance" /\ elapsed
                 THEN [user EXCEPT !.daily_virtual_deposited = 0] ELSE user
        over == balance_type = "virtual_balance" /\ OverLimit(user, amount, t)
        \* lines 213-219
        self2 == IF balance_type = "virtual_balance"
                 THEN [self1 EXCEPT !.daily_virtual_deposited = Plus(@, amount),
                                    !.virtual_balance = Plus(@, amount)]
                 ELSE [self1 EXCEPT !.balance = Plus(@, amount)]
        ud2 == IF balance_type = "virtual_balance"
               THEN [ud1 EXCEPT
                       !.daily_virtual_deposited = self2.daily_virtual_deposited,
                       !.virtual_balance = self2.virtual_balance]
               ELSE [ud1 EXCEPT !.balance = self2.balance]
        users2 == IF uid \in DOMAIN users THEN [users EXCEPT ![uid] = ud2]
                  ELSE users @@ (uid :> ud2)
        users1 == IF uid \in DOMAIN users THEN [users EXCEPT ![uid] = ud1]
                  ELSE users @@ (uid :> ud1)
    IN  IF over THEN [ok |-> FALSE, file |-> Raised(f, users1), user |-> self1,
                      wait |-> ReportedWait(user, t)]
        ELSE [ok |-> TRUE, file |-> save_users(users2), user |-> self2,
              wait |-> NoWait]

\* User.withdraw, line 232: the sufficient-balance test on the object
CanWithdrawAlways(user, amount, balance_type) == TRUE

CanWithdraw(user, amount, balance_type) ==
    amount # NaN /\ user[balance_type] # NaN /\ user[balance_type] >= amount

\* User.withdraw(amount, balance_type)
withdraw(f, user, amount, balance_type) ==
    IF CanWithdraw(user, amount, balance_type)
    THEN [ok |-> TRUE,
          file |-> update_balance(f, user.user_id, 0 - amount, balance_type),
          user |-> [user EXCEPT ![balance_type] = @ - amount]]
    ELSE [ok |-> FALSE, file |-> f, user |-> user]

\* User.toggle_balance_type
toggle_balance_type(f, user) ==
    LET users == load_users(f)
    IN  save_users([users EXCEPT ![user.user_id].use_virtual = ~user.use_virtual])

\* ------------------------------------------------------ outcome generator

RECURSIVE Pow(_, _)
Pow(b, k) == IF k = 0 THEN 1 ELSE b * Pow(b, k - 1)

\* floor(x * n / d) without an intermediate product above x * n / d + n * d
MulDiv(x, n, d) == (x \div d) * n + ((x % d) * n) \div d

\* ROCKET_CRASH_PROBABILITIES, thresholds and probabilities in thousandths
ROCKET_CRASH_PROBABILITIES ==
    << [threshold |-> 1100, prob |-> 100],
       [threshold |-> 1500, prob |-> 300],
       [threshold |-> 3000, prob |-> 600],
       [threshold |-> 5000, prob |-> 900],
       [threshold |-> 25000, prob |-> 1000] >>

\* lines 840-851 without the max(crash_at, 1.01) of line 853
CrashPointUnclamped(rand) ==
    LET P == ROCKET_CRASH_PROBABILITIES
        hit == {i \in 1..Len(P) : rand <= P[i].prob}
        i == CHOOSE j \in hit : \A k \in hit : j <= k
    IN  IF hit = {} THEN 1000
        ELSE IF i = 1
             THEN 1000 + MulDiv(P[1].threshold - 1000, rand, P[1].prob)
             ELSE P[i - 1].threshold
                    + MulDiv(P[i].threshold - P[i - 1].threshold,
                             rand - P[i - 1].prob,
                             P[i].prob - P[i - 1].prob)

\* rocket_bet, lines 840-853: the crash point for the draw rand (thousandths)
CrashPoint(rand) ==
    LET P == ROCKET_CRASH_PROBABILITIES
        hit == {i \in 1..Len(P) : rand <= P[i].prob}
        i == CHOOSE j \in hit : \A k \in hit : j <= k
        crash_at ==
            IF hit = {} THEN 1000
            ELSE IF i = 1
                 THEN 1000 + MulDiv(P[1].threshold - 1000, rand, P[1].prob)
                 ELSE P[i - 1].threshold
                        + MulDiv(P[i].threshold - P[i - 1].threshold,
                                 rand - P[i - 1].prob,
                                 P[i].prob - P[i - 1].prob)
    IN  IF crash_at < 1010 THEN 1010 ELSE crash_at

\* update_multiplier, lines 908-909: the multiplier, in thousandths, of a
\* game with crash point crash_at, elapsed seconds after start_time, in a
\* chain whose crash_time is crash_time milliseconds
CurrentMultiplier(crash_at, elapsed, crash_time) ==
    1000 + MulDiv(elapsed * 1000, crash_at - 1000, crash_time)

\* rocket_cashout, line 1040: bet * multiplier
RocketWin(bet, multiplier) == MulDiv(bet, multiplier, 1000)

\* MATRIX_MULTIPLIERS[k] = 1.2 ** k = 6^k / 5^k, and bet * MATRIX_MULTIPLIERS[k]
MatrixWin(bet, k) == MulDiv(bet, Pow(6, k), Pow(5, k))

\* dice_choice, line 1491: bet * DICE_MULTIPLIERS[bet_type]
DiceWin(bet, bet_type) == bet * DICE_MULTIPLIERS[bet_type]

\* dice_choice, lines 1476-1489: the bet type and the win condition of a
\* choice ("even", "odd" or a face "1".."6") against the roll
DiceBetType(choice) == IF choice \in {"even", "odd"} THEN 1 ELSE 2

\* int(player_choice) for the faces "1".."6" of the keyboard
FaceOf(choice) == CHOOSE n \in 1..6 : ToString(n) = choice

DiceWins(choice, roll) ==
    IF choice = "even" THEN roll % 2 = 0
    ELSE IF choice = "odd" THEN roll % 2 = 1
    ELSE FaceOf(choice) = roll

\* ----------------------------------------------------------- registries

Remove(g, u) == [x \in DOMAIN g \ {u} |-> g[x]]

Put(g, u, v) == [x \in DOMAIN g \cup {u} |-> IF x = u THEN v ELSE g[x]]

\* the balance a bet is taken from: lines 803, 1071, 1357
BetBalanceType(user) ==
    IF user.use_virtual THEN "virtual_balance" ELSE "balance"

\* the balance a win is paid to: game['balance_type'], the currency the
\* stake was withdrawn from (lines 1042, 1320, 1492), whatever the account's
\* active currency is by then
SettleCurrencyActive(game, user) == BetBalanceType(user)

SettleCurrency(game, user) == game.balance_type

\* the checks of a bet handler, lines 814-837: "ok" or the reason it stops
BetCheck(user, stake) ==
    IF Less(stake, MIN_BET) THEN "min"
    ELSE IF Less(MAX_BET * Dollar, stake) THEN "max"
    ELSE IF Less(user[BetBalanceType(user)], stake) THEN "funds"
    ELSE "ok"

\* User.__init__, lines 171-172: the totals of a new User object
NoTotals == [total_bets |-> 0, total_wins |-> 0]

\* get_user, line 309: users_db[user_id] = user, a new User object
Fresh(db, u) == Put(db, u, NoTotals)

\* get_user for every user of the set U
FreshAll(db, U) ==
    [x \in DOMAIN db \cup U |-> IF x \in U THEN NoTotals ELSE db[x]]

\* User.add_bet, lines 248-252, on a new User object
add_bet(db, u, amount) == Put(db, u, [NoTotals EXCEPT !.total_bets = amount])

\* User.add_win, lines 243-246, on a new User object
add_win(db, u, amount) == Put(db, u, [NoTotals EXCEPT !.total_wins = amount])

\* lines 1017, 1278 and 1461 without the comparison
IsOwnerAlways(user_id, target_user_id) == TRUE

\* rocket_cashout line 1017, matrix_choice line 1278, dice_choice line 1461:
\* the sender of a callback is the user its data names
IsOwner(user_id, target_user_id) == user_id = target_user_id

\* ------------------------------------------------------------------ state

VARIABLES
    file,       \* users.json: user id -> record
    users_db,   \* users_db: user id -> the totals of the User object kept
    now,        \* the wall clock, in seconds
    rocket,     \* active_rocket_games: user id -> game
    matrix,     \* active_matrix_games: user id -> game
    dice,       \* active_dice_games: user id -> game
    chains,     \* the pending update_multiplier jobs of the job queue
    shown,      \* the callback data of every button sent so far
    nextSid,    \* history: the number the next session is known by
    outcome,    \* history: session -> what was settled for it
    invoices,   \* active_invoices: invoice id -> [user_id, amount, paid]
    provider,   \* the payment provider: the invoice ids it reports as paid
    threads,    \* where the dispatcher thread and the job threads stand
    ev          \* history: the last operation and its outcome

vars == <<file, users_db, now, rocket, matrix, dice, chains, shown, nextSid, outcome,
          invoices, provider, threads, ev>>

games == <<rocket, matrix, dice, chains, shown, nextSid, outcome>>

payments == <<invoices, provider>>

Empty == [u \in {} |-> 0]

Idle == [pc |-> "idle"]

\* the state after the module is loaded: empty registries, an empty file
Init ==
    /\ file = Empty
    /\ users_db = Empty
    /\ now = 0
    /\ rocket = Empty
    /\ matrix = Empty
    /\ dice = Empty
    /\ chains = {}
    /\ shown = {}
    /\ nextSid = 1
    /\ outcome = Empty
    /\ invoices = Empty
    /\ provider = {}
    /\ threads = [hand |-> Idle, job |-> Idle, tick |-> Idle]
    /\ ev = [op |-> "init"]

\* time passes: a step of the clock, or a day
AdvanceClock(d) ==
    /\ IF d = ClockStep THEN now % VIRTUAL_DEPOSIT_RESET < MaxSecs
                        ELSE now \div VIRTUAL_DEPOSIT_RESET < MaxDays
    /\ now' = now + d
    /\ ev' = [op |-> "clock"]
    /\ UNCHANGED users_db
    /\ UNCHANGED <<file, games, payments, threads>>

ClockJumps == {ClockStep, VIRTUAL_DEPOSIT_RESET}

\* ------------------------------------------------- the ledger on its own

\* amounts, in dollars, the ledger operations are tried with
LedgerAmounts == {10, 95, 150}

Stored(f, uid) == IF uid \in DOMAIN f THEN f[uid] ELSE NewRecord("", FALSE)

\* get_user(uid) then user.deposit(amount, balance_type)
LedgerDeposit(uid, amount, balance_type) ==
    LET g == get_user(file, uid, TelegramName(uid))
        r == deposit(g.file, g.user, amount, balance_type, now)
    IN  /\ balance_type = "balance" =>
               g.user.balance + amount <= MaxBalanceDollars * Dollar
        /\ file' = r.file
        /\ ev' = [op |-> "deposit", uid |-> uid, amount |-> amount,
                  balance_type |-> balance_type, ok |-> r.ok,
                  prior |-> g.file[uid][balance_type], wait |-> r.wait]
        /\ users_db' = Fresh(users_db, uid)
        /\ UNCHANGED <<now, games, payments, threads>>

\* get_user(uid) then user.withdraw(amount, balance_type)
LedgerWithdraw(uid, amount, balance_type) ==
    LET g == get_user(file, uid, "")
        r == withdraw(g.file, g.user, amount, balance_type)
    IN  /\ file' = r.file
        /\ ev' = [op |-> "withdraw", uid |-> uid, amount |-> amount,
                  balance_type |-> balance_type, ok |-> r.ok,
                  prior |-> g.file[uid][balance_type]]
        /\ users_db' = Fresh(users_db, uid)
        /\ UNCHANGED <<now, games, payments, threads>>

LedgerNext ==
    \/ \E d \in ClockJumps : AdvanceClock(d)
    \/ \E a \in LedgerAmounts, bt \in BalanceTypes :
          LedgerDeposit(1, a * Dollar, bt)
    \/ \E a \in LedgerAmounts \ {150}, bt \in BalanceTypes :
          LedgerWithdraw(1, a * Dollar, bt)

SpecLedger == Init /\ [][LedgerNext]_vars

\* --------------------------------------------- handlers: account, payments

\* how many sessions and invoices a behaviour creates at most
MaxSessions == 2

MaxInvoices == 2

\* the dispatcher runs one handler at a time; jobs run on their own threads
HandlerFree == threads.hand.pc = "idle"

\* /start: start(update, context)
Start(u) ==
    /\ HandlerFree
    /\ file' = get_user(file, u, TelegramName(u)).file
    /\ ev' = [op |-> "start", uid |-> u]
    /\ users_db' = Fresh(users_db, u)
    /\ UNCHANGED <<now, games, payments, threads>>

\* callback change_balance: button_handler, then change_balance
ChangeBalance(u) ==
    LET g == get_user(file, u, TelegramName(u))
    IN  /\ HandlerFree
        /\ file' = toggle_balance_type(g.file, g.user)
        /\ ev' = [op |-> "change_balance", uid |-> u]
        /\ users_db' = Fresh(users_db, u)
        /\ UNCHANGED <<now, games, payments, threads>>

\* /add <amount>: add_virtual_balance; the ValueError of deposit is caught
AddVirtualBalance(u, amount) ==
    LET g == get_user(file, u, TelegramName(u))
        r == deposit(g.file, g.user, amount, "virtual_balance", now)
    IN  /\ HandlerFree
        /\ file' = IF LessEq(amount, 0) THEN g.file ELSE r.file
        /\ ev' = [op |-> "add", uid |-> u, amount |-> amount,
                  ok |-> ~LessEq(amount, 0) /\ r.ok]
        /\ users_db' = Fresh(users_db, u)
        /\ UNCHANGED <<now, games, payments, threads>>

\* admin_add_balance_handler, lines 1645-1650: the first stored record whose
\* lowercased username is the one asked for (usernames differ in the model)
FindByUsername(users, username) ==
    {uid \in DOMAIN users : Lower(users[uid].username) = username}

\* admin_add_balance_handler / admin_add_virtual_handler: "@name amount"
\* sent by sender; the ValueError of deposit is caught
AdminAdd(sender, name, amount, balance_type) ==
    LET g == get_user(file, sender, TelegramName(sender))
        username == Lower(name)
        found == FindByUsername(load_users(g.file), username)
        target == CHOOSE uid \in found : TRUE
        t == get_user(g.file, target, username)
        r == deposit(t.file, t.user, amount, balance_type, now)
        \* lines 1637 and 1740: if amount <= 0: raise ValueError
        done == g.user.is_admin /\ ~LessEq(amount, 0) /\ found # {}
    IN  /\ HandlerFree
        /\ (done /\ balance_type = "balance" /\ Plus(t.user.balance, amount) # NaN)
               => t.user.balance + amount <= MaxBalanceDollars * Dollar
        /\ file' = IF done THEN r.file ELSE g.file
        /\ ev' = [op |-> "admin_add", uid |-> sender, name |-> name,
                  amount |-> amount, balance_type |-> balance_type,
                  ok |-> done /\ r.ok]
        /\ users_db' = FreshAll(users_db, IF done THEN {sender, target} ELSE {sender})
        /\ UNCHANGED <<now, games, payments, threads>>

\* deposit_amount then create_crypto_invoice: the provider answers with a
\* new invoice id (created) or the request fails
DepositAmount(u, amount, created) ==
    LET g == get_user(file, u, "")
        id == Cardinality(DOMAIN invoices) + 1
    IN  /\ HandlerFree
        /\ id <= MaxInvoices
        /\ amount <= MaxBalanceDollars * Dollar
        /\ file' = IF amount < Dollar THEN file ELSE g.file
        /\ invoices' = IF amount >= Dollar /\ created
                        THEN Put(invoices, id,
                                 [user_id |-> u, amount |-> amount, paid |-> FALSE])
                        ELSE invoices
        /\ ev' = [op |-> "deposit_amount", uid |-> u, amount |-> amount,
                  ok |-> amount >= Dollar /\ created]
        /\ users_db' = IF amount < Dollar THEN users_db ELSE Fresh(users_db, u)
        /\ UNCHANGED <<now, games, provider, threads>>

\* the payer pays invoice i: the provider reports it as paid from now on
ProviderPays(i) ==
    /\ i \in DOMAIN invoices
    /\ i \notin provider
    /\ provider' = provider \cup {i}
    /\ ev' = [op |-> "paid", invoice |-> i]
    /\ UNCHANGED users_db
    /\ UNCHANGED <<file, now, games, invoices, threads>>

\* check_invoices, lines 373-375: is the reported invoice to be credited
InvoiceDueAgain(inv, paidIds, i) == i \in paidIds /\ i \in DOMAIN inv

InvoiceDue(inv, paidIds, i) ==
    i \in paidIds /\ i \in DOMAIN inv /\ ~inv[i].paid

\* check_invoices, lines 376-380: get_user, deposit, paid = True
CreditInvoice(st, i, t) ==
    LET g == get_user(st.file, st.inv[i].user_id, "")
        r == deposit(g.file, g.user, st.inv[i].amount, "balance", t)
    IN  [file |-> r.file,
         inv |-> [st.inv EXCEPT ![i].paid = TRUE],
         credited |-> st.credited \cup {i}]

\* check_invoices, lines 369-380: the loop over the items of the answer,
\* here the invoices i..MaxInvoices in the order of their ids
RECURSIVE CheckLoop(_, _, _, _)
CheckLoop(st, paidIds, i, t) ==
    IF i > Cardinality(DOMAIN st.inv) THEN st
    ELSE CheckLoop(IF InvoiceDue(st.inv, paidIds, i)
                   THEN CreditInvoice(st, i, t) ELSE st,
                   paidIds, i + 1, t)

\* one run of the check_invoices job, getInvoices answering with the
\* provider's state
CheckInvoices ==
    LET st == CheckLoop([file |-> file, inv |-> invoices, credited |-> {}],
                        provider, 1, now)
    IN  /\ threads.job.pc = "idle"
        /\ invoices # Empty
        /\ file' = st.file
        /\ invoices' = st.inv
        /\ ev' = [op |-> "check_invoices", credited |-> st.credited,
                  run |-> IF ev.op = "check_invoices" THEN 2 ELSE 1,
                  earlier |-> IF ev.op = "check_invoices" THEN ev.credited
                              ELSE {}]
        /\ users_db' = FreshAll(users_db, {invoices[i].user_id : i \in st.credited})
        /\ UNCHANGED <<now, games, provider, threads>>

\* ------------------------------------------------------- handlers: games

\* the clean-up left out: the registry as it was
ErrorCleanupKept(g, u) == g

\* error_handler, lines 1919-1927: an exception raised by a handler of an
\* update of user u removes u from all three registries
ErrorCleanup(g, u) == IF u \in DOMAIN g THEN Remove(g, u) ELSE g

NoOutcome == [paid |-> 0, crashed |-> 0]

Paid(o, sid) == [o EXCEPT ![sid].paid = @ + 1]

Crashed(o, sid) == [o EXCEPT ![sid].crashed = @ + 1]

\* the stakes and the draws of random.random() the games are played with
Stakes == {10 * Dollar}

RandDraws == {200}

\* rocket_bet with the message text stake; rand is the draw of
\* random.random(), sent the outcome of the first safe_send_message of
\* run_rocket_game.  Lines 799-801 drop an earlier game of the user first.
rocket_bet(u, stake, rand, sent) ==
    LET rocket1 == IF u \in DOMAIN rocket THEN Remove(rocket, u) ELSE rocket
        g == get_user(file, u, "")
        balance_type == BetBalanceType(g.user)
        verdict == BetCheck(g.user, stake)
        w == withdraw(g.file, g.user, stake, balance_type)
        crash_at == CrashPoint(rand)
        game == [bet |-> stake, multiplier |-> 1000, crashed |-> FALSE,
                 crash_at |-> crash_at, balance_type |-> balance_type,
                 sid |-> nextSid]
        chain == [uid |-> u, start_time |-> now, crash_time |-> crash_at * 3,
                  sid |-> nextSid]
    IN  /\ HandlerFree
        /\ nextSid <= MaxSessions
        /\ IF verdict # "ok"
           THEN /\ file' = g.file
                /\ rocket' = rocket1
                /\ UNCHANGED <<chains, shown, nextSid, outcome>>
           ELSE /\ file' = w.file
                /\ nextSid' = nextSid + 1
                /\ outcome' = Put(outcome, nextSid, NoOutcome)
                /\ IF sent
                   THEN /\ rocket' = Put(rocket1, u, game)
                        /\ chains' = chains \cup {chain}
                        /\ shown' = shown \cup {<<"rocket_cashout", u>>}
                   ELSE /\ rocket' = rocket1
                        /\ UNCHANGED <<chains, shown>>
        /\ ev' = [op |-> "rocket_bet", uid |-> u, result |-> verdict]
        /\ users_db' = Fresh(users_db, u)
        /\ UNCHANGED <<now, matrix, dice, payments, threads>>

\* update_multiplier, line 912: the game ends at this tick
CrashNow(game, m) == m >= game.crash_at \/ game.crashed

\* one run of the job update_multiplier of chain c; delivered is whether
\* the edit of the running message (or the message sent in its place)
\* succeeded
update_multiplier(c, delivered) ==
    LET u == c.uid
        game == rocket[u]
        m == CurrentMultiplier(game.crash_at, now - c.start_time, c.crash_time)
    IN  /\ threads.tick.pc = "idle"
        /\ c \in chains
        /\ IF u \notin DOMAIN rocket
           THEN /\ chains' = chains \ {c}
                /\ UNCHANGED <<rocket, outcome>>
                /\ ev' = [op |-> "tick", uid |-> u, result |-> "gone"]
           ELSE IF CrashNow(game, m)
           THEN /\ chains' = chains \ {c}
                /\ rocket' = IF game.crashed
                              THEN [rocket EXCEPT ![u].multiplier = m]
                              ELSE Remove(rocket, u)
                /\ outcome' = IF game.crashed THEN outcome
                               ELSE Crashed(outcome, game.sid)
                /\ ev' = [op |-> "tick", uid |-> u, result |-> "crashed"]
           ELSE IF delivered
           THEN /\ rocket' = [rocket EXCEPT ![u].multiplier = m]
                /\ UNCHANGED <<chains, outcome>>
                /\ ev' = [op |-> "tick", uid |-> u, result |-> "running"]
           ELSE /\ chains' = chains \ {c}
                /\ rocket' = Remove(rocket, u)
                /\ UNCHANGED outcome
                /\ ev' = [op |-> "tick", uid |-> u, result |-> "dropped"]
        /\ UNCHANGED users_db
        /\ UNCHANGED <<file, now, matrix, dice, shown, nextSid, payments, threads>>

\* the end of a settlement: the notification (safe_edit_message, then the
\* fallback safe_send_message) swallows its own failure and the guarded del
\* after it runs in either case (lines 1044-1055, 1331-1341, 1508-1517)
SettledIfNotified(g, u, notified) == IF notified THEN Remove(g, u) ELSE g

Settled(g, u, notified) == Remove(g, u)

\* callback rocket_cashout_<target> sent by sender: button_handler, then
\* rocket_cashout.  A ValueError of deposit reaches error_handler.
rocket_cashout(sender, target, notified) ==
    LET g == get_user(file, sender, TelegramName(sender))
        game == rocket[sender]
        win_amount == RocketWin(game.bet, game.multiplier)
        r == deposit(g.file, g.user, win_amount, SettleCurrency(game, g.user), now)
        settles == IsOwner(sender, target) /\ sender \in DOMAIN rocket /\ ~game.crashed
    IN  /\ HandlerFree
        /\ <<"rocket_cashout", target>> \in shown
        /\ IF ~settles
           THEN /\ file' = g.file
                /\ UNCHANGED <<rocket, matrix, dice, outcome>>
                /\ ev' = [op |-> "rocket_cashout", uid |-> sender,
                          result |-> "rejected"]
           ELSE IF r.ok
           THEN /\ file' = r.file
                /\ rocket' = Settled(rocket, sender, notified)
                /\ outcome' = Paid(outcome, game.sid)
                /\ UNCHANGED <<matrix, dice>>
                /\ ev' = [op |-> "rocket_cashout", uid |-> sender,
                          result |-> "paid"]
           ELSE /\ file' = g.file
                /\ rocket' = ErrorCleanup(rocket, sender)
                /\ matrix' = ErrorCleanup(matrix, sender)
                /\ dice' = ErrorCleanup(dice, sender)
                /\ UNCHANGED outcome
                /\ ev' = [op |-> "rocket_cashout", uid |-> sender,
                          result |-> "error"]
        /\ users_db' = IF settles /\ r.ok THEN add_win(users_db, sender, win_amount)
                     ELSE Fresh(users_db, sender)
        /\ UNCHANGED <<now, chains, shown, nextSid, payments, threads>>

\* the cells of a Matrix level: range(1, 6)
MatrixCells == 1..5

\* f'matrix_correct_{i}', the callback data of a safe cell i before the
\* user id
CorrectData ==
    <<"matrix_correct_1", "matrix_correct_2", "matrix_correct_3",
      "matrix_correct_4", "matrix_correct_5">>

\* callback_data.startswith(...) in matrix_choice, lines 1292-1318: the
\* kind of button a callback data names
Prefix(data) ==
    IF \E i \in MatrixCells : data = CorrectData[i] THEN "matrix_correct"
    ELSE data

\* the keyboard of a Matrix level whose bomb was drawn at bomb_position, as
\* rows of one button with its label and its callback data (the user id
\* kept apart): lines 1118-1127 and 1190-1202.  The cell at bomb_position
\* carries matrix_bomb, the others matrix_correct_<i>.
MatrixButtons(u, level, bomb_position) ==
    [k \in 1..6 |->
        IF k \in MatrixCells
        THEN [text |-> <<"cell", k>>,
              callback_data |-> <<IF k = bomb_position THEN "matrix_bomb"
                                  ELSE CorrectData[k], u>>]
        ELSE [text |-> <<"cashout", IF level = 0 THEN 0 ELSE 1>>,
              callback_data |-> <<IF level = 0 THEN "matrix_disabled"
                                  ELSE "matrix_cashout", u>>]]

\* the callback data on that keyboard
MatrixKeyboard(u, level, bomb_position) ==
    {MatrixButtons(u, level, bomb_position)[k].callback_data : k \in 1..6}

\* matrix_bet with the message text stake; sent is whether the first
\* message went out (an exception of send_message drops the game),
\* bomb_position the draw of random.randint(1, 5) for the first keyboard.
\* The session record keeps, beside the fields of the game dict, the bomb
\* position of the keyboard last sent for it.
matrix_bet(u, stake, sent, bomb_position) ==
    LET g == get_user(file, u, "")
        balance_type == BetBalanceType(g.user)
        verdict == BetCheck(g.user, stake)
        w == withdraw(g.file, g.user, stake, balance_type)
        game == [bet |-> stake, current_level |-> 0,
                 balance_type |-> balance_type, sid |-> nextSid,
                 bomb_position |-> bomb_position]
    IN  /\ HandlerFree
        /\ nextSid <= MaxSessions
        /\ IF verdict # "ok"
           THEN /\ file' = g.file
                /\ UNCHANGED <<matrix, shown, nextSid, outcome>>
           ELSE /\ file' = w.file
                /\ nextSid' = nextSid + 1
                /\ outcome' = Put(outcome, nextSid, NoOutcome)
                /\ IF sent
                   THEN /\ matrix' = Put(matrix, u, game)
                        /\ shown' = shown \cup MatrixKeyboard(u, 0, bomb_position)
                   ELSE /\ matrix' = ErrorCleanup(matrix, u)
                        /\ UNCHANGED shown
        /\ ev' = [op |-> "matrix_bet", uid |-> u, result |-> verdict]
        /\ users_db' = IF verdict = "ok" THEN add_bet(users_db, u, stake)
                     ELSE Fresh(users_db, u)
        /\ UNCHANGED <<now, rocket, dice, chains, payments, threads>>

\* the draws of random.randint(1, 5) and the buttons pressed where the
\* position of the bomb plays no part
BombDraws == {1}

MatrixKinds == {"matrix_correct_2", "matrix_bomb", "matrix_disabled",
                "matrix_cashout"}

\* show_matrix_level, line 1162: the table is exhausted
TableExhausted(level) == level >= MATRIX_LEVELS

\* callback <data>_<target> sent by sender: button_handler, then
\* matrix_choice (and show_matrix_level after matrix_correct).  delivered
\* is whether the next level's message went out, bomb_position the draw
\* for the next level's keyboard.  A ValueError of deposit reaches
\* error_handler.
matrix_choice(sender, target, data, delivered, bomb_position) ==
    LET g == get_user(file, sender, TelegramName(sender))
        kind == Prefix(data)
        game == matrix[sender]
        level == IF kind = "matrix_correct" THEN game.current_level + 1
                 ELSE game.current_level
        pays == \/ kind = "matrix_cashout"
                \/ kind = "matrix_correct" /\ TableExhausted(level)
        win_amount == IF kind = "matrix_cashout"
                      THEN MatrixWin(game.bet, game.current_level)
                      ELSE MatrixWin(game.bet, MATRIX_LEVELS - 1)
        r == deposit(g.file, g.user, win_amount, SettleCurrency(game, g.user), now)
        acts == IsOwner(sender, target) /\ sender \in DOMAIN matrix
                  /\ kind # "matrix_disabled"
    IN  /\ HandlerFree
        /\ <<data, target>> \in shown
        /\ file' = IF acts /\ pays /\ r.ok THEN r.file ELSE g.file
        /\ IF ~acts
           THEN /\ UNCHANGED <<rocket, matrix, dice, shown, outcome>>
                /\ ev' = [op |-> "matrix_choice", uid |-> sender,
                          kind |-> "", result |-> "rejected"]
           ELSE IF pays /\ ~r.ok
           THEN /\ rocket' = ErrorCleanup(rocket, sender)
                /\ matrix' = ErrorCleanup(matrix, sender)
                /\ dice' = ErrorCleanup(dice, sender)
                /\ UNCHANGED <<shown, outcome>>
                /\ ev' = [op |-> "matrix_choice", uid |-> sender,
                          kind |-> kind, result |-> "error"]
           ELSE IF pays
           THEN /\ matrix' = Settled(matrix, sender, delivered)
                /\ outcome' = Paid(outcome, game.sid)
                /\ UNCHANGED <<rocket, dice, shown>>
                /\ ev' = [op |-> "matrix_choice", uid |-> sender,
                          kind |-> kind, result |-> "paid"]
           ELSE IF kind = "matrix_bomb"
           THEN /\ matrix' = Remove(matrix, sender)
                /\ UNCHANGED <<rocket, dice, shown, outcome>>
                /\ ev' = [op |-> "matrix_choice", uid |-> sender,
                          kind |-> kind, result |-> "lost"]
           ELSE IF delivered
           THEN /\ matrix' = [matrix EXCEPT ![sender].current_level = level,
                                            ![sender].bomb_position = bomb_position]
                /\ shown' = shown \cup MatrixKeyboard(sender, level, bomb_position)
                /\ UNCHANGED <<rocket, dice, outcome>>
                /\ ev' = [op |-> "matrix_choice", uid |-> sender,
                          kind |-> kind, result |-> "next"]
           ELSE /\ matrix' = Remove(matrix, sender)
                /\ UNCHANGED <<rocket, dice, shown, outcome>>
                /\ ev' = [op |-> "matrix_choice", uid |-> sender,
                          kind |-> kind, result |-> "dropped"]
        /\ users_db' = IF acts /\ pays /\ r.ok THEN add_win(users_db, sender, win_amount)
                     ELSE Fresh(users_db, sender)
        /\ UNCHANGED <<now, chains, nextSid, payments, threads>>

\* dice_bet with the message text stake; sent is the outcome of
\* safe_send_message (lines 1428-1439 drop the game when it failed)
dice_bet(u, stake, sent) ==
    LET g == get_user(file, u, "")
        balance_type == BetBalanceType(g.user)
        verdict == BetCheck(g.user, stake)
        w == withdraw(g.file, g.user, stake, balance_type)
        game == [bet |-> stake, balance_type |-> balance_type, sid |-> nextSid]
    IN  /\ HandlerFree
        /\ nextSid <= MaxSessions
        /\ IF verdict # "ok"
           THEN /\ file' = g.file
                /\ UNCHANGED <<dice, shown, nextSid, outcome>>
           ELSE /\ file' = w.file
                /\ nextSid' = nextSid + 1
                /\ outcome' = Put(outcome, nextSid, NoOutcome)
                /\ IF sent
                   THEN /\ dice' = Put(dice, u, game)
                        /\ shown' = shown \cup {<<"dice", u>>}
                   ELSE /\ dice' = ErrorCleanup(dice, u)
                        /\ UNCHANGED shown
        /\ ev' = [op |-> "dice_bet", uid |-> u, result |-> verdict]
        /\ users_db' = IF verdict = "ok" THEN add_bet(users_db, u, stake)
                     ELSE Fresh(users_db, u)
        /\ UNCHANGED <<now, rocket, matrix, chains, payments, threads>>

DiceChoices == {"even", "odd", "1", "2", "3", "4", "5", "6"}

\* callback dice_<choice>_<target> sent by sender: button_handler, then
\* dice_choice; roll is the draw of random.randint(1, 6).  A ValueError of
\* deposit reaches error_handler.
dice_choice(sender, target, choice, roll, notified) ==
    LET g == get_user(file, sender, TelegramName(sender))
        game == dice[sender]
        wins == DiceWins(choice, roll)
        win_amount == DiceWin(game.bet, DiceBetType(choice))
        r == deposit(g.file, g.user, win_amount, SettleCurrency(game, g.user), now)
        acts == IsOwner(sender, target) /\ sender \in DOMAIN dice
    IN  /\ HandlerFree
        /\ <<"dice", target>> \in shown
        /\ file' = IF acts /\ wins /\ r.ok THEN r.file ELSE g.file
        /\ IF ~acts
           THEN /\ UNCHANGED <<rocket, matrix, dice, outcome>>
                /\ ev' = [op |-> "dice_choice", uid |-> sender,
                          result |-> "rejected"]
           ELSE IF wins /\ ~r.ok
           THEN /\ rocket' = ErrorCleanup(rocket, sender)
                /\ matrix' = ErrorCleanup(matrix, sender)
                /\ dice' = ErrorCleanup(dice, sender)
                /\ UNCHANGED outcome
                /\ ev' = [op |-> "dice_choice", uid |-> sender,
                          result |-> "error",
                          choice |-> choice, roll |-> roll]
           ELSE /\ dice' = Settled(dice, sender, notified)
                /\ outcome' = IF wins THEN Paid(outcome, game.sid) ELSE outcome
                /\ UNCHANGED <<rocket, matrix>>
                /\ ev' = [op |-> "dice_choice", uid |-> sender,
                          result |-> IF wins THEN "paid" ELSE "lost",
                          choice |-> choice, roll |-> roll]
        /\ users_db' = IF acts /\ wins /\ r.ok THEN add_win(users_db, sender, win_amount)
                     ELSE Fresh(users_db, sender)
        /\ UNCHANGED <<now, chains, shown, nextSid, payments, threads>>

\* ------------------------------------------------- payments on their own

\* invoices are created, paid and reconciled while an admin credits accounts
PayNext ==
    \/ AdvanceClock(ClockStep)
    \/ \E u \in UserIds : Start(u)
    \/ \E t \in UserIds : AdminAdd(1, TelegramName(t), 10 * Dollar, "balance")
    \/ \E u \in UserIds, ok \in BOOLEAN : DepositAmount(u, 10 * Dollar, ok)
    \/ \E i \in 1..MaxInvoices : ProviderPays(i)
    \/ CheckInvoices

SpecPay == Init /\ [][PayNext]_vars

\* --------------------------------------- the games, one handler or job
\* --------------------------------------- at a time

\* the amounts, in dollars, of /add
AddAmounts == {50}

\* the users who fund an account (/add, admin credits); the others send
\* commands and press buttons with empty balances
Funded == {1}

\* an admin credits real money
Credit == \E t \in Funded : AdminAdd(1, TelegramName(t), 10 * Dollar, "balance")

\* real and virtual money: admin credits, /add and the currency switch
Fund ==
    \/ Credit
    \/ \E u \in Funded : ChangeBalance(u)
    \/ \E u \in Funded, a \in AddAmounts : AddVirtualBalance(u, a * Dollar)

\* the steps of each game when the users in U play it
RocketSteps(U) ==
    \/ AdvanceClock(ClockStep)
    \/ \E u \in U, a \in Stakes, r \in RandDraws, ok \in BOOLEAN :
          rocket_bet(u, a, r, ok)
    \/ \E c \in chains, ok \in BOOLEAN : update_multiplier(c, ok)
    \/ \E u \in U, t \in Funded, ok \in BOOLEAN : rocket_cashout(u, t, ok)

MatrixSteps(U) ==
    \/ \E u \in U, a \in Stakes, ok \in BOOLEAN, b \in BombDraws :
          matrix_bet(u, a, ok, b)
    \/ \E u \in U, t \in Funded, k \in MatrixKinds, ok \in BOOLEAN,
          b \in BombDraws :
          matrix_choice(u, t, k, ok, b)

DiceSteps(U) ==
    \/ \E u \in U, a \in Stakes, ok \in BOOLEAN : dice_bet(u, a, ok)
    \/ \E u \in U, t \in Funded, c \in DiceChoices, roll \in 1..6,
          ok \in BOOLEAN :
          dice_choice(u, t, c, roll, ok)

\* one game each, played by every user with real and with virtual money
RocketNext == Fund \/ RocketSteps(UserIds)

SpecRocket == Init /\ [][RocketNext]_vars

MatrixNext == Fund \/ MatrixSteps(UserIds)

SpecMatrix == Init /\ [][MatrixNext]_vars

DiceNext == Fund \/ DiceSteps(UserIds)

SpecDice == Init /\ [][DiceNext]_vars

\* the three games together, played by the funded users with real money
Next == Credit \/ RocketSteps(Funded) \/ MatrixSteps(Funded) \/ DiceSteps(Funded)

Spec == Init /\ [][Next]_vars

\* --------------------------------- the job threads beside the dispatcher

\* The job queue runs check_invoices and update_multiplier on its own
\* threads while the dispatcher runs one handler at a time.  Each of them is
\* cut where it reads shared state (the file, a game dict) and where it
\* writes what it computed from that reading.

\* a write to the dict of session sid also reaches the handler that holds
\* the dict (rocket_cashout, line 1029: game = active_rocket_games[user_id])
Seen(th, sid, field, value) ==
    IF th.hand.pc = "pay" /\ th.hand.game.sid = sid
    THEN [th EXCEPT !.hand.game[field] = value]
    ELSE th

\* check_invoices, lines 355-368: the request to getInvoices and its answer
check_invoices_fetch ==
    /\ threads.job.pc = "idle"
    /\ invoices # Empty
    /\ threads' = [threads EXCEPT
                      !.job = [pc |-> "scan", answer |-> provider, i |-> 1]]
    /\ ev' = [op |-> "check_invoices_fetch"]
    /\ UNCHANGED users_db
    /\ UNCHANGED <<file, now, games, payments>>

\* check_invoices, lines 369-376: the next item of the answer; get_user for
\* an item that is due
check_invoices_scan ==
    LET j == threads.job
        g == get_user(file, invoices[j.i].user_id, "")
    IN  /\ j.pc = "scan"
        /\ IF j.i \notin DOMAIN invoices
           THEN /\ threads' = [threads EXCEPT !.job = Idle]
                /\ UNCHANGED file
           ELSE IF InvoiceDue(invoices, j.answer, j.i)
           THEN /\ threads' = [threads EXCEPT
                                 !.job = [pc |-> "deposit", answer |-> j.answer,
                                          i |-> j.i, user |-> g.user]]
                /\ file' = g.file
           ELSE /\ threads' = [threads EXCEPT !.job.i = @ + 1]
                /\ UNCHANGED file
        /\ ev' = [op |-> "check_invoices_scan"]
        /\ users_db' = IF j.i \in DOMAIN invoices /\ InvoiceDue(invoices, j.answer, j.i)
                     THEN Fresh(users_db, invoices[j.i].user_id) ELSE users_db
        /\ UNCHANGED <<now, games, payments>>

\* check_invoices, lines 377-380: user.deposit(amount, 'balance'), then
\* paid = True
check_invoices_deposit ==
    LET j == threads.job
        r == deposit(file, j.user, invoices[j.i].amount, "balance", now)
    IN  /\ j.pc = "deposit"
        /\ file' = r.file
        /\ invoices' = [invoices EXCEPT ![j.i].paid = TRUE]
        /\ threads' = [threads EXCEPT
                         !.job = [pc |-> "scan", answer |-> j.answer,
                                  i |-> j.i + 1]]
        /\ ev' = [op |-> "check_invoices_deposit"]
        /\ users_db' = Fresh(users_db, j.user.user_id)
        /\ UNCHANGED <<now, games, provider>>

\* rocket_bet, lines 787-837: the old game is dropped, the user is read
\* from the file and the stake is checked against the balances read
rocket_bet_check(u, stake) ==
    LET rocket1 == IF u \in DOMAIN rocket THEN Remove(rocket, u) ELSE rocket
        g == get_user(file, u, "")
        verdict == BetCheck(g.user, stake)
    IN  /\ HandlerFree
        /\ nextSid <= MaxSessions
        /\ file' = g.file
        /\ rocket' = rocket1
        /\ threads' = IF verdict = "ok"
                       THEN [threads EXCEPT
                               !.hand = [pc |-> "withdraw", uid |-> u,
                                         user |-> g.user, stake |-> stake]]
                       ELSE threads
        /\ ev' = [op |-> "rocket_bet_check"]
        /\ users_db' = Fresh(users_db, u)
        /\ UNCHANGED <<now, matrix, dice, chains, shown, nextSid, outcome,
                       payments>>

\* rocket_bet, lines 838-867, and run_rocket_game, lines 869-900:
\* user.withdraw, the crash point, the new game and its first tick
rocket_bet_withdraw(rand, sent) ==
    LET h == threads.hand
        u == h.uid
        balance_type == BetBalanceType(h.user)
        w == withdraw(file, h.user, h.stake, balance_type)
        crash_at == CrashPoint(rand)
        game == [bet |-> h.stake, multiplier |-> 1000, crashed |-> FALSE,
                 crash_at |-> crash_at, balance_type |-> balance_type,
                 sid |-> nextSid]
        chain == [uid |-> u, start_time |-> now, crash_time |-> crash_at * 3,
                  sid |-> nextSid]
    IN  /\ h.pc = "withdraw"
        /\ file' = w.file
        /\ nextSid' = nextSid + 1
        /\ outcome' = Put(outcome, nextSid, NoOutcome)
        /\ IF sent
           THEN /\ rocket' = Put(rocket, u, game)
                /\ chains' = chains \cup {chain}
                /\ shown' = shown \cup {<<"rocket_cashout", u>>}
           ELSE UNCHANGED <<rocket, chains, shown>>
        /\ threads' = [threads EXCEPT !.hand = Idle]
        /\ ev' = [op |-> "rocket_bet_withdraw"]
        /\ users_db' = Fresh(users_db, u)
        /\ UNCHANGED <<now, matrix, dice, payments>>

\* update_multiplier, lines 903-913: the multiplier is written to the game
\* and the end of the game is decided; a game found at its crash point and
\* not marked crashed goes on to update_multiplier_crash
update_multiplier_check(c, delivered) ==
    LET u == c.uid
        game == rocket[u]
        m == CurrentMultiplier(game.crash_at, now - c.start_time, c.crash_time)
    IN  /\ threads.tick.pc = "idle"
        /\ c \in chains
        /\ IF u \notin DOMAIN rocket
           THEN /\ chains' = chains \ {c}
                /\ UNCHANGED <<rocket, threads>>
           ELSE IF CrashNow(game, m) /\ ~game.crashed
           THEN /\ rocket' = [rocket EXCEPT ![u].multiplier = m]
                /\ threads' = [Seen(threads, game.sid, "multiplier", m) EXCEPT
                                 !.tick = [pc |-> "crash", c |-> c,
                                           sid |-> game.sid]]
                /\ UNCHANGED chains
           ELSE IF CrashNow(game, m)
           THEN /\ chains' = chains \ {c}
                /\ rocket' = [rocket EXCEPT ![u].multiplier = m]
                /\ threads' = Seen(threads, game.sid, "multiplier", m)
           ELSE IF delivered
           THEN /\ rocket' = [rocket EXCEPT ![u].multiplier = m]
                /\ threads' = Seen(threads, game.sid, "multiplier", m)
                /\ UNCHANGED chains
           ELSE /\ chains' = chains \ {c}
                /\ rocket' = Remove(rocket, u)
                /\ threads' = Seen(threads, game.sid, "multiplier", m)
        /\ ev' = [op |-> "update_multiplier_check"]
        /\ UNCHANGED users_db
        /\ UNCHANGED <<file, now, matrix, dice, shown, nextSid, outcome,
                       payments>>

\* update_multiplier, lines 914-936: crashed = True, the loss is announced
\* and the user's entry leaves the registry
update_multiplier_crash ==
    LET t == threads.tick
        u == t.c.uid
    IN  /\ t.pc = "crash"
        /\ chains' = chains \ {t.c}
        /\ rocket' = ErrorCleanup(rocket, u)
        /\ outcome' = Crashed(outcome, t.sid)
        /\ threads' = [Seen(threads, t.sid, "crashed", TRUE) EXCEPT
                         !.tick = Idle]
        /\ ev' = [op |-> "update_multiplier_crash"]
        /\ UNCHANGED users_db
        /\ UNCHANGED <<file, now, matrix, dice, shown, nextSid, payments>>

\* button_handler, then rocket_cashout, lines 1000-1038: the owner's game
\* is fetched and found not crashed
rocket_cashout_check(sender, target) ==
    LET g == get_user(file, sender, TelegramName(sender))
        settles == /\ IsOwner(sender, target)
                   /\ sender \in DOMAIN rocket
                   /\ ~rocket[sender].crashed
    IN  /\ HandlerFree
        /\ <<"rocket_cashout", target>> \in shown
        /\ file' = g.file
        /\ threads' = IF settles
                       THEN [threads EXCEPT
                               !.hand = [pc |-> "pay", uid |-> sender,
                                         game |-> rocket[sender]]]
                       ELSE threads
        /\ ev' = [op |-> "rocket_cashout_check"]
        /\ users_db' = Fresh(users_db, sender)
        /\ UNCHANGED <<now, games, payments>>

\* rocket_cashout, lines 1039-1055: crashed = True, the win is computed
\* from the game's multiplier and deposited, the user's entry leaves the
\* registry.  A ValueError of deposit reaches error_handler.
rocket_cashout_pay ==
    LET h == threads.hand
        u == h.uid
        win_amount == RocketWin(h.game.bet, h.game.multiplier)
        g == get_user(file, u, "")
        r == deposit(g.file, g.user, win_amount, SettleCurrency(h.game, g.user), now)
    IN  /\ h.pc = "pay"
        /\ file' = IF r.ok THEN r.file ELSE g.file
        /\ rocket' = ErrorCleanup(rocket, u)
        /\ matrix' = IF r.ok THEN matrix ELSE ErrorCleanup(matrix, u)
        /\ dice' = IF r.ok THEN dice ELSE ErrorCleanup(dice, u)
        /\ outcome' = IF r.ok THEN Paid(outcome, h.game.sid) ELSE outcome
        /\ threads' = [threads EXCEPT !.hand = Idle]
        /\ ev' = [op |-> "rocket_cashout_pay"]
        /\ users_db' = IF r.ok THEN add_win(users_db, u, win_amount)
                     ELSE Fresh(users_db, u)
        /\ UNCHANGED <<now, chains, shown, nextSid, payments>>

\* one user funds the account (admin credit, one invoice of 1 $) and plays
\* Crash while the jobs run
ConcNext ==
    \/ AdvanceClock(ClockStep)
    \/ Credit
    \/ invoices = Empty /\ \E u \in Funded : DepositAmount(u, Dollar, TRUE)
    \/ \E i \in 1..MaxInvoices : ProviderPays(i)
    \/ check_invoices_fetch
    \/ check_invoices_scan
    \/ check_invoices_deposit
    \/ \E u \in Funded, a \in Stakes : rocket_bet_check(u, a)
    \/ \E r \in RandDraws, ok \in BOOLEAN : rocket_bet_withdraw(r, ok)
    \/ \E c \in chains, ok \in BOOLEAN : update_multiplier_check(c, ok)
    \/ update_multiplier_crash
    \/ \E u \in Funded, t \in Funded : rocket_cashout_check(u, t)
    \/ rocket_cashout_pay

SpecConc == Init /\ [][ConcNext]_vars

\* ------------------------------------------------ the stake of a bet

\* the message texts sent as a stake
BetTexts == {"0.05", "10", "1001", "nan"}

\* float(update.effective_message.text), lines 806, 1074 and 1360, and
\* float(context.args[0]), line 640, for the texts of BetTexts and AddTexts
float(text) ==
    IF text = "nan" THEN NaN
    ELSE IF text = "0.05" THEN Dollar \div 20
    ELSE IF text = "10" THEN 10 * Dollar
    ELSE IF text = "60" THEN 60 * Dollar
    ELSE IF text = "0" THEN 0
    ELSE 1001 * Dollar

\* funded users send each of the texts as the stake of each game
StakeNext ==
    \/ Fund
    \/ \E u \in Funded, t \in BetTexts, r \in RandDraws :
          rocket_bet(u, float(t), r, TRUE)
    \/ \E u \in Funded, t \in BetTexts, b \in BombDraws :
          matrix_bet(u, float(t), TRUE, b)
    \/ \E u \in Funded, t \in BetTexts : dice_bet(u, float(t), TRUE)

SpecStake == Init /\ [][StakeNext]_vars

\* ------------------------------------ two players, each other's buttons

\* the Dice buttons pressed and the rolls of random.randint(1, 6)
OwnerChoices == {"even", "3"}

OwnerRolls == {3, 4}

\* both users are credited real money and play the three games; every
\* button on screen is pressed by its owner and by the other user, the
\* Crash game before its first tick
OwnerNext ==
    \/ \E t \in UserIds : AdminAdd(1, TelegramName(t), 10 * Dollar, "balance")
    \/ \E u \in UserIds, a \in Stakes, r \in RandDraws :
          rocket_bet(u, a, r, TRUE)
    \/ \E u \in UserIds, t \in UserIds : rocket_cashout(u, t, TRUE)
    \/ \E u \in UserIds, a \in Stakes, b \in BombDraws : matrix_bet(u, a, TRUE, b)
    \/ \E u \in UserIds, t \in UserIds, k \in MatrixKinds, b \in BombDraws :
          matrix_choice(u, t, k, TRUE, b)
    \/ \E u \in UserIds, a \in Stakes : dice_bet(u, a, TRUE)
    \/ \E u \in UserIds, t \in UserIds, c \in OwnerChoices, roll \in OwnerRolls :
          dice_choice(u, t, c, roll, TRUE)

SpecOwner == Init /\ [][OwnerNext]_vars

\* ------------------------------------- Crash after a bet replaced a bet

\* the state after user 1 has bet 10 $ on Crash at 0 s and again at
\* ClockStep s, with 10 $ left: rocket_bet (lines 799-801) dropped the first
\* game and both update_multiplier chains are pending.  The dropped session is
\* numbered 0, the running one 1.
InitRebet ==
    LET crash_at == CrashPoint(CHOOSE r \in RandDraws : TRUE)
        stake == CHOOSE a \in Stakes : TRUE
    IN  /\ file = Put(Empty, 1, [NewRecord("al", FALSE) EXCEPT !.balance = stake])
        /\ users_db = Put(Empty, 1, NoTotals)
        /\ now = ClockStep
        /\ rocket = Put(Empty, 1,
                        [bet |-> stake, multiplier |-> 1000, crashed |-> FALSE,
                         crash_at |-> crash_at, balance_type |-> "balance",
                         sid |-> 1])
        /\ matrix = Empty
        /\ dice = Empty
        /\ chains = {[uid |-> 1, start_time |-> 0,
                      crash_time |-> crash_at * 3, sid |-> 0],
                     [uid |-> 1, start_time |-> ClockStep,
                      crash_time |-> crash_at * 3, sid |-> 1]}
        /\ shown = {<<"rocket_cashout", 1>>}
        /\ nextSid = 1 + 1
        /\ outcome = Put(Put(Empty, 0, NoOutcome), 1, NoOutcome)
        /\ invoices = Empty
        /\ provider = {}
        /\ threads = [hand |-> Idle, job |-> Idle, tick |-> Idle]
        /\ ev = [op |-> "rocket_bet", uid |-> 1, result |-> "ok"]

RebetNext == Credit \/ RocketSteps(Funded)

SpecRebet == InitRebet /\ [][RebetNext]_vars

\* --------------------------------------- save_users beside another thread

\* admin_add_balance_handler crediting 10 $ to the user named name, up to the
\* open(USER_FILE, "w") of the save_users of User.deposit (line 133): the
\* file is empty, its new content is still to be written
admin_add_open(name) ==
    LET g == get_user(file, 1, TelegramName(1))
        username == Lower(name)
        found == FindByUsername(load_users(g.file), username)
        target == CHOOSE uid \in found : TRUE
        t == get_user(g.file, target, username)
        r == deposit(t.file, t.user, 10 * Dollar, "balance", now)
    IN  /\ HandlerFree
        /\ found # {}
        /\ t.user.balance + 10 * Dollar <= MaxBalanceDollars * Dollar
        /\ file' = Truncated
        /\ threads' = [threads EXCEPT !.hand = [pc |-> "dump", users |-> r.file]]
        /\ ev' = [op |-> "admin_add_open", name |-> name]
        /\ users_db' = FreshAll(users_db, {1, target})
        /\ UNCHANGED <<now, games, payments>>

\* save_users, lines 133-134: json.dump writes the content and the file is
\* closed.  When another thread has written the file since it was opened,
\* the two texts are laid over each other: the result is this content
\* (mixed = FALSE) or text that does not parse.
save_users_dump(mixed) ==
    /\ threads.hand.pc = "dump"
    /\ mixed => file # Truncated
    /\ file' = IF mixed THEN Truncated ELSE threads.hand.users
    /\ threads' = [threads EXCEPT !.hand = Idle]
    /\ ev' = [op |-> "save_users_dump"]
    /\ UNCHANGED <<users_db, now, games, payments>>

\* save_users, lines 133-137: json.dump fails part-way (OSError), the
\* exception is logged and raised, the handler ends
save_users_fail ==
    /\ threads.hand.pc = "dump"
    /\ file = Truncated
    /\ threads' = [threads EXCEPT !.hand = Idle]
    /\ ev' = [op |-> "save_users_fail"]
    /\ UNCHANGED <<file, users_db, now, games, payments>>

\* accounts are created and credited while the check_invoices job runs
\* beside the handlers
FileNext ==
    \/ \E u \in UserIds : Start(u)
    \/ \E u \in UserIds : admin_add_open(TelegramName(u))
    \/ \E mixed \in BOOLEAN : save_users_dump(mixed)
    \/ save_users_fail
    \/ invoices = Empty /\ \E u \in Funded : DepositAmount(u, Dollar, TRUE)
    \/ \E i \in 1..MaxInvoices : ProviderPays(i)
    \/ CheckInvoices

SpecFile == Init /\ [][FileNext]_vars

\* ------------------------------------------- the crash point on its own

\* random.random() draws from [0, 1): the draws 0/DrawSteps .. (DrawSteps -
\* 1)/DrawSteps, in thousandths
DrawSteps == 1000

AllDraws == 0 .. DrawSteps - 1

\* the program before a Crash bet, with the draw rocket_bet is about to make
InitDraw ==
    /\ file = Empty
    /\ users_db = Empty
    /\ now = 0
    /\ rocket = Empty
    /\ matrix = Empty
    /\ dice = Empty
    /\ chains = {}
    /\ shown = {}
    /\ nextSid = 1
    /\ outcome = Empty
    /\ invoices = Empty
    /\ provider = {}
    /\ threads = [hand |-> Idle, job |-> Idle, tick |-> Idle]
    /\ \E rand \in AllDraws : ev = [op |-> "random", rand |-> rand]

\* rocket_bet, lines 840-853: crash_at is computed from the draw
DrawCrashPoint ==
    /\ ev.op = "random"
    /\ ev' = [op |-> "crash_at", rand |-> ev.rand,
              crash_at |-> CrashPoint(ev.rand)]
    /\ UNCHANGED <<file, users_db, now, games, payments, threads>>

SpecCrashPoint == InitDraw /\ [][DrawCrashPoint]_vars

\* ================================================================ claims

\* the part of an account other than the balance named by balance_type
Rest(rec, balance_type) == [rec EXCEPT ![balance_type] = 0]

\* C7: withdraw(a) with 0 < a <= balance, immediately followed by
\* deposit(a) in the same currency, succeeds and leaves that balance equal
\* to its value before the withdraw.
C7_RoundTrip ==
    [][(/\ ev.op = "withdraw" /\ ev.ok
        /\ ev'.op = "deposit"
        /\ ev'.uid = ev.uid
        /\ ev'.amount = ev.amount
        /\ ev'.balance_type = ev.balance_type)
       => (ev'.ok /\ file'[ev.uid][ev.balance_type] = ev.prior)]_vars

\* C8: withdraw with amount greater than the selected balance returns false
\* and changes no field of the account; with amount <= balance it returns
\* true and lowers that balance, and only it, by the amount.
C8_WithdrawContract ==
    [][ev'.op = "withdraw" =>
        LET uid == ev'.uid
            bt == ev'.balance_type
            before == Stored(file, uid)
        IN  IF ev'.amount > before[bt]
            THEN ~ev'.ok /\ file'[uid] = before
            ELSE /\ ev'.ok
                 /\ file'[uid][bt] = before[bt] - ev'.amount
                 /\ Rest(file'[uid], bt) = Rest(before, bt)]_vars

\* a withdraw was declined on an account that holds money
C8_Declined ==
    /\ ev.op = "withdraw"
    /\ ~ev.ok
    /\ ev.prior > 0
    /\ ev.amount > ev.prior

\* C9 as stated: in the window a virtual deposit with issued + amount > 100
\* fails; once 24 hours have passed since the window start the same deposit
\* succeeds, the counter ends equal to the amount and the window start is
\* the time of the deposit.
C9_AsStated ==
    [][(ev'.op = "deposit" /\ ev'.balance_type = "virtual_balance") =>
        LET before == Stored(file, ev'.uid)
            after == file'[ev'.uid]
            over == before.daily_virtual_deposited + ev'.amount
                        > DAILY_VIRTUAL_LIMIT * Dollar
            elapsed == /\ before.last_virtual_deposit_time # None
                       /\ now - before.last_virtual_deposit_time
                              >= VIRTUAL_DEPOSIT_RESET
        IN  over =>
              IF elapsed
              THEN /\ ev'.ok
                   /\ after.daily_virtual_deposited = ev'.amount
                   /\ after.last_virtual_deposit_time = now
              ELSE ~ev'.ok]_vars

\* C9 amended: as stated for an amount of at most 100; a deposit whose
\* amount alone exceeds 100 fails after the window has elapsed as well, and
\* a failed deposit leaves the stored account as it was.
C9_DailyLimit ==
    [][(ev'.op = "deposit" /\ ev'.balance_type = "virtual_balance") =>
        LET before == Stored(file, ev'.uid)
            after == file'[ev'.uid]
            a == ev'.amount
            elapsed == /\ before.last_virtual_deposit_time # None
                       /\ now - before.last_virtual_deposit_time
                              >= VIRTUAL_DEPOSIT_RESET
        IN  IF elapsed
            THEN IF a <= DAILY_VIRTUAL_LIMIT * Dollar
                 THEN /\ ev'.ok
                      /\ after.daily_virtual_deposited = a
                      /\ after.last_virtual_deposit_time = now
                      /\ after.virtual_balance = before.virtual_balance + a
                 ELSE ~ev'.ok /\ [after EXCEPT !.username = ""]
                                   = [before EXCEPT !.username = ""]
            ELSE IF before.daily_virtual_deposited + a
                       > DAILY_VIRTUAL_LIMIT * Dollar
                 THEN ~ev'.ok /\ [after EXCEPT !.username = ""]
                                   = [before EXCEPT !.username = ""]
                 ELSE /\ ev'.ok
                      /\ after.daily_virtual_deposited
                            = before.daily_virtual_deposited + a
                      /\ after.virtual_balance = before.virtual_balance + a]_vars

\* 95 dollars were issued in one window and, a day later, a deposit of 10
\* has restarted the counter at 10
C9_Restarted ==
    /\ ev.op = "deposit" /\ ev.ok
    /\ ev.balance_type = "virtual_balance"
    /\ ev.amount = 10 * Dollar
    /\ ev.prior = 95 * Dollar
    /\ now >= VIRTUAL_DEPOSIT_RESET
    /\ file[ev.uid].daily_virtual_deposited = 10 * Dollar
    /\ file[ev.uid].last_virtual_deposit_time = now

\* the real balance of u in the file f; an account not yet stored holds 0
RealOf(f, u) == IF u \in DOMAIN f THEN f[u].balance ELSE 0

\* the amounts of the invoices 1..i of u that the provider reports as paid
\* and that are not marked as credited yet
RECURSIVE DueSum(_, _)
DueSum(u, i) ==
    IF i = 0 THEN 0
    ELSE DueSum(u, i - 1)
           + (IF /\ i \in DOMAIN invoices
                 /\ i \in provider
                 /\ invoices[i].user_id = u
                 /\ ~invoices[i].paid
              THEN invoices[i].amount ELSE 0)

\* C3: a run of check_invoices raises each owner's real balance by the
\* amounts of the owner's paid invoices not credited before, and a run that
\* follows another run at once, the provider reporting the same invoices as
\* paid, changes no balance: a paid invoice is credited exactly once.
C3_ReconcileOnce ==
    [][ev'.op = "check_invoices"
       => \A u \in UserIds :
             /\ RealOf(file', u) = RealOf(file, u) + DueSum(u, MaxInvoices)
             /\ ev.op = "check_invoices" => RealOf(file', u) = RealOf(file, u)]_vars

\* C3 witness: a second run in succession, after a run that credited an
\* invoice, with that invoice still reported as paid
C3_SecondRun ==
    /\ ev.op = "check_invoices"
    /\ ev.run = 2
    /\ ev.credited = {}
    /\ \E i \in ev.earlier : i \in provider /\ invoices[i].paid

\* the number of registries that hold a session of u
SessionsOf(u) ==
    (IF u \in DOMAIN rocket THEN 1 ELSE 0)
      + (IF u \in DOMAIN matrix THEN 1 ELSE 0)
      + (IF u \in DOMAIN dice THEN 1 ELSE 0)

\* C4: at every moment each user owns at most one active session, counted
\* across the Crash, Ladder and Dice registries together.
C4_OneSession == \A u \in UserIds : SessionsOf(u) <= 1

BetOps == {"rocket_bet", "matrix_bet", "dice_bet"}

\* C5: a bet placed while its user already has an active session is
\* rejected: no stake is withdrawn, no session is created, and the existing
\* session is left as it was.
C5_SecondBetRejected ==
    [][(ev'.op \in BetOps /\ SessionsOf(ev'.uid) > 0)
       => /\ rocket' = rocket
          /\ matrix' = matrix
          /\ dice' = dice
          /\ nextSid' = nextSid
          /\ \A bt \in BalanceTypes :
                file'[ev'.uid][bt] = file[ev'.uid][bt]]_vars

\* C6: every winning resolution (Crash cash-out while running, Ladder
\* cash-out at level >= 1, Ladder auto-settle, Dice win) raises the owner's
\* balance in the session's currency by exactly stake x multiplier, in
\* either currency and whatever the daily virtual issuance is.
C6_WinCredited ==
    [][/\ (ev'.op = "rocket_cashout" /\ ev'.result \in {"paid", "error"})
          => LET g == rocket[ev'.uid]
             IN  file'[ev'.uid][g.balance_type]
                   = file[ev'.uid][g.balance_type] + RocketWin(g.bet, g.multiplier)
       /\ (/\ ev'.op = "matrix_choice"
           /\ ev'.result \in {"paid", "error"}
           /\ ev'.kind = "matrix_cashout" => matrix[ev'.uid].current_level >= 1)
          => LET g == matrix[ev'.uid]
                 k == IF ev'.kind = "matrix_cashout" THEN g.current_level
                      ELSE MATRIX_LEVELS - 1
             IN  file'[ev'.uid][g.balance_type]
                   = file[ev'.uid][g.balance_type] + MatrixWin(g.bet, k)
       /\ (/\ ev'.op = "dice_choice"
           /\ ev'.result \in {"paid", "error"})
          => LET g == dice[ev'.uid]
             IN  file'[ev'.uid][g.balance_type]
                   = file[ev'.uid][g.balance_type]
                       + g.bet * (IF ev'.choice \in {"even", "odd"} THEN 2 ELSE 6)
      ]_vars

\* C10: a Dice session resolves on the owner's first selection: an exact
\* face wins iff it equals the roll and pays stake x 6, a parity bet wins
\* iff the roll's parity matches and pays stake x 2, a losing bet credits
\* nothing; the session is gone afterwards.
C10_DicePays ==
    [][(ev'.op = "dice_choice" /\ ev'.result # "rejected")
       => LET u == ev'.uid
              g == dice[u]
              roll == ev'.roll
              pay == IF ev'.choice = "even"
                     THEN (IF roll \in {2, 4, 6} THEN 2 * g.bet ELSE 0)
                     ELSE IF ev'.choice = "odd"
                     THEN (IF roll \in {1, 3, 5} THEN 2 * g.bet ELSE 0)
                     ELSE (IF ev'.choice = ToString(roll) THEN 6 * g.bet ELSE 0)
          IN  /\ file'[u][g.balance_type] = file[u][g.balance_type] + pay
              /\ u \notin DOMAIN dice']_vars

\* C1: in every reachable state every account's real balance and virtual
\* balance are >= 0, the handlers and the reconciliation job running
\* concurrently against the same user file.
C1_NonNegative ==
    \A u \in DOMAIN file : file[u].balance >= 0 /\ file[u].virtual_balance >= 0

\* C2: when the owner's cash-out and the tick that detects the crash are
\* interleaved, exactly one of them settles the session: never is a win
\* deposited and the crash loss announced for the same session.
C2_SettledOnce ==
    \A sid \in DOMAIN outcome :
        ~(outcome[sid].paid > 0 /\ outcome[sid].crashed > 0)

\* C11: each account's totalWagered and totalWon never decrease: the totals
\* a bet or a win has raised are still in place after any later operation
\* on the same user.
C11_TotalsKept ==
    [][\A u \in DOMAIN users_db :
          /\ users_db'[u].total_bets >= users_db[u].total_bets
          /\ users_db'[u].total_wins >= users_db[u].total_wins]_vars

\* C12: a cash-out action by the owner on a Ladder session whose level is 0
\* is rejected, whatever callback carries it: nothing is deposited and the
\* session stays active at level 0.
C12_NoCashoutAtZero ==
    [][(/\ ev'.op = "matrix_choice"
        /\ ev'.kind = "matrix_cashout"
        /\ ev'.uid \in DOMAIN matrix
        /\ matrix[ev'.uid].current_level = 0)
       => LET u == ev'.uid
          IN  /\ matrix' = matrix
              /\ file'[u].balance = file[u].balance
              /\ file'[u].virtual_balance = file[u].virtual_balance]_vars

\* C13: when a safe choice moves a Ladder session's level to the length of
\* the multiplier table (10), the session is settled at once: stake x the
\* last multiplier (1.2^9) is deposited in the session's currency and the
\* session is removed.
C13_TableExhaustedPays ==
    [][(/\ ev'.op = "matrix_choice"
        /\ ev'.kind = "matrix_correct"
        /\ ev'.uid \in DOMAIN matrix
        /\ matrix[ev'.uid].current_level + 1 = MATRIX_LEVELS)
       => LET u == ev'.uid
              g == matrix[u]
          IN  /\ file'[u][g.balance_type]
                   = file[u][g.balance_type] + MulDiv(g.bet, Pow(6, 9), Pow(5, 9))
              /\ u \notin DOMAIN matrix']_vars

\* the bands of the crash point: multiplier lo_m at probability lo_p up to
\* multiplier hi_m at probability hi_p, in thousandths
C14_Bands ==
    { [lo_m |-> 1000, lo_p |-> 0, hi_m |-> 1100, hi_p |-> 100],
      [lo_m |-> 1100, lo_p |-> 100, hi_m |-> 1500, hi_p |-> 300],
      [lo_m |-> 1500, lo_p |-> 300, hi_m |-> 3000, hi_p |-> 600],
      [lo_m |-> 3000, lo_p |-> 600, hi_m |-> 5000, hi_p |-> 900],
      [lo_m |-> 5000, lo_p |-> 900, hi_m |-> 25000, hi_p |-> 1000] }

\* y is the linear interpolation of r within the band b, rounded down to a
\* thousandth
C14_OnLine(b, r, y) ==
    LET w == b.hi_p - b.lo_p
        rise == (r - b.lo_p) * (b.hi_m - b.lo_m)
    IN  /\ (y - b.lo_m) * w <= rise
        /\ rise < (y + 1 - b.lo_m) * w

\* C14: for every draw r in [0,1) the crash point equals the piecewise-linear
\* interpolation of r over the bands (1.1, 0.10), (1.5, 0.30), (3.0, 0.60),
\* (5.0, 0.90), (25.0, 1.00), clamped below at 1.01: r = 0 gives 1.01, r just
\* below 0.10 gives just below 1.1, and the result is always >= 1.01 and
\* <= 25.0.
C14_CrashPoint ==
    ev.op = "crash_at"
    => LET r == ev.rand
           c == ev.crash_at
       IN  /\ \E b \in C14_Bands :
                /\ b.lo_p <= r /\ r <= b.hi_p
                /\ \/ c > 1010 /\ C14_OnLine(b, r, c)
                   \/ c = 1010 /\ \E y \in 1000..1010 : C14_OnLine(b, r, y)
           /\ (r = 0 => c = 1010)
           /\ (r = 99 => c = 1099)
           /\ c >= 1010
           /\ c <= 25000

C14_JustBelowTenth ==
    ev.op = "crash_at" /\ ev.rand = 99 /\ ev.crash_at = 1099

\* the balances of u in the user file, 0 for a user without a record
C15_Balances(f, u) ==
    IF u \in DOMAIN f THEN <<f[u].balance, f[u].virtual_balance>> ELSE <<0, 0>>

\* ------------------------------------------------ Crash games under fair ticks

\* the seconds after which a game drawn with rand has reached its crash
\* time (crash_at * 3 seconds, line 876)
CrashSecs(rand) == (CrashPoint(rand) * 3 + 999) \div 1000

\* every chain that can be scheduled: run_rocket_game, lines 875-876 and 998
AllChains ==
    {[uid |-> u, start_time |-> t, crash_time |-> CrashPoint(r) * 3, sid |-> s] :
        u \in Funded, t \in 0..(MaxSecs + ClockStep), r \in RandDraws,
        s \in 1..MaxSessions}

\* Crash alone, played with real money; a game is started while the
\* modelled clock still runs past its crash time
TicksNext ==
    \/ Credit
    \/ AdvanceClock(ClockStep)
    \/ \E u \in Funded, a \in Stakes, r \in RandDraws, ok \in BOOLEAN :
          /\ now + CrashSecs(r) <= MaxSecs
          /\ rocket_bet(u, a, r, ok)
    \/ \E c \in chains, ok \in BOOLEAN : update_multiplier(c, ok)
    \/ \E u \in Funded, ok \in BOOLEAN : rocket_cashout(u, u, ok)

\* time passes, and every job the job queue holds is run (run_once with a
\* delay of 0.5 s, lines 995 and 998)
SpecTicks ==
    /\ Init /\ [][TicksNext]_vars
    /\ WF_vars(AdvanceClock(ClockStep))
    /\ \A c \in AllChains : WF_vars(\E ok \in BOOLEAN : update_multiplier(c, ok))

\* ------------------------------------------ the Ladder with its bomb positions

\* the draws of random.randint(1, 5) and the buttons pressed
LadderBombs == {1, 2}

LadderData == {"matrix_correct_1", "matrix_correct_2", "matrix_bomb",
               "matrix_disabled", "matrix_cashout"}

\* the Ladder alone, played with real money by its owner
LadderNext ==
    \/ Credit
    \/ \E u \in Funded, a \in Stakes, ok \in BOOLEAN, b \in LadderBombs :
          matrix_bet(u, a, ok, b)
    \/ \E u \in Funded, d \in LadderData, ok \in BOOLEAN, b \in LadderBombs :
          matrix_choice(u, u, d, ok, b)

SpecLadder == Init /\ [][LadderNext]_vars

\* ------------------------------------------------ virtual credits on their own

\* the arguments /add is sent with
AddTexts == {"0", "10", "60", "nan"}

\* /add, the admin's virtual credit and the currency switch while days pass
AddNext ==
    \/ \E d \in ClockJumps : AdvanceClock(d)
    \/ \E u \in Funded : ChangeBalance(u)
    \/ \E u \in Funded, t \in AddTexts : AddVirtualBalance(u, float(t))
    \/ \E t \in Funded : AdminAdd(1, TelegramName(t), 60 * Dollar, "virtual_balance")

SpecAdd == Init /\ [][AddNext]_vars

\* ------------------------------------------- check_invoices on any answer

\* an answer of getInvoices lists at most MaxItems items
MaxItems == 2

\* an invoice id of the provider that is not in active_invoices
UnknownId == MaxInvoices + 1

\* an item of the answer that is not a dict (line 370)
NotARecord == [dict |-> FALSE, status |-> "", invoice_id |-> 0]

\* the items of an answer: records with a status and an invoice id, or
\* something else
Items ==
    [dict : {TRUE}, status : {"paid", "active"}, invoice_id : 1..UnknownId]
      \cup {NotARecord}

\* what requests.get and response.json() give check_invoices (lines
\* 358-368): an HTTP error, ok = false, items that are no list, or a list
\* of items
Failures == {"http_error", "not_ok", "not_list"}

Answers ==
    {[kind |-> k, items |-> << >>] : k \in Failures}
      \cup {[kind |-> "items", items |-> s] :
               s \in UNION {[1..n -> Items] : n \in 0..MaxItems}}

\* check_invoices, lines 373-375, for an item of the answer
ItemDueAnyStatus(inv, item) ==
    /\ item.invoice_id \in DOMAIN inv
    /\ ~inv[item.invoice_id].paid

ItemDue(inv, item) ==
    /\ item.status = "paid"
    /\ item.invoice_id \in DOMAIN inv
    /\ ~inv[item.invoice_id].paid

\* check_invoices, lines 370-372: the item looked at after item k, which
\* is not a dict (continue)
ContinueStop(items, k) == Len(items) + 1

Continue(items, k) == k + 1

\* check_invoices, lines 376-378 raising at invoice i (get_user or deposit
\* fails, say save_users on the file): the exception leaves the loop
\* before line 380, nothing is saved and the flag is not set
FailedCreditFlagged(st, i) == [st EXCEPT !.inv[i].paid = TRUE]

FailedCredit(st, i) == st

\* check_invoices, lines 369-388: the loop over the items from item k on;
\* fail is the item at which crediting raises (0: none), t the time; the
\* state after a credit is bound as a value, to be computed once
RECURSIVE CheckItems(_, _, _, _, _)
CheckItems(st, items, k, fail, t) ==
    IF k > Len(items) THEN st
    ELSE IF ~items[k].dict
    THEN CheckItems(st, items, Continue(items, k), fail, t)
    ELSE IF ~ItemDue(st.inv, items[k])
    THEN CheckItems(st, items, k + 1, fail, t)
    ELSE IF fail = k THEN FailedCredit(st, items[k].invoice_id)
    ELSE CHOOSE r \in {CheckItems(s, items, k + 1, fail, t) :
                          s \in {CreditInvoice(st, items[k].invoice_id, t)}} :
            TRUE

\* one run of the check_invoices job on the answer of getInvoices; every
\* exception is caught at line 388
check_invoices(answer, fail) ==
    LET st0 == [file |-> file, inv |-> invoices, credited |-> {}]
        st == CHOOSE r \in {IF answer.kind \in Failures THEN st0
                            ELSE CheckItems(st0, answer.items, 1, fail, now)} :
                 TRUE
        failed == IF /\ fail \in 1..Len(answer.items)
                     /\ ItemDue(invoices, answer.items[fail])
                     /\ answer.items[fail].invoice_id \notin st.credited
                  THEN {answer.items[fail].invoice_id} ELSE {}
    IN  /\ threads.job.pc = "idle"
        /\ invoices # Empty
        /\ file' = st.file
        /\ invoices' = st.inv
        /\ ev' = [op |-> "check_invoices_answer", kind |-> answer.kind,
                  skipped |-> Len(SelectSeq(answer.items,
                                            LAMBDA item : ~item.dict)),
                  credited |-> st.credited,
                  failed |-> failed,
                  retry |-> IF ev.op = "check_invoices_answer"
                            THEN ev.failed ELSE {}]
        /\ users_db' = FreshAll(users_db, {invoices[i].user_id : i \in st.credited})
        /\ UNCHANGED <<now, games, provider, threads>>

\* the amounts, in dollars, invoices are asked for
InvoiceAmounts == {10, 20}

\* invoices are created and the job runs on every answer
AnswerNext ==
    \/ \E u \in UserIds, a \in InvoiceAmounts, ok \in BOOLEAN :
          DepositAmount(u, a * Dollar, ok)
    \/ \E a \in Answers : check_invoices(a, 0)

SpecAnswer == Init /\ [][AnswerNext]_vars

\* ------------------------------------------- check_invoices, run after run

\* the answer of a provider that reports every registered invoice, in the
\* order of the ids, as paid once it has been paid
ProviderAnswer ==
    [kind |-> "items",
     items |-> [i \in 1..Cardinality(DOMAIN invoices) |->
                   [dict |-> TRUE,
                    status |-> IF i \in provider THEN "paid" ELSE "active",
                    invoice_id |-> i]]]

\* invoices are created and paid; the job runs on the provider's answer and
\* the credit of any one item may raise
RetryNext ==
    \/ \E u \in UserIds, a \in InvoiceAmounts :
          DepositAmount(u, a * Dollar, TRUE)
    \/ \E i \in 1..MaxInvoices : ProviderPays(i)
    \/ \E fail \in 1..MaxInvoices : check_invoices(ProviderAnswer, fail)
    \/ check_invoices(ProviderAnswer, 0)

\* run_repeating(check_invoices, interval=30): the job runs again and
\* again, and a run in which no credit raises is never postponed for ever
SpecRetry ==
    Init /\ [][RetryNext]_vars /\ WF_vars(check_invoices(ProviderAnswer, 0))

\* ----------------------------- a ledger operation beside the job's credit

\* the operations that load users.json, change one record and save it:
\* User.deposit, User.withdraw, User.toggle_balance_type, and get_user on
\* the first reference to an account
LedgerKinds == {"deposit", "withdraw", "toggle_balance_type", "get_user"}

\* the amount, in dollars, of a virtual deposit and of a withdrawal
LedgerAmount == 60

\* what the operation kind by u is going to save, from the file it loads
LedgerContent(f, u, kind) ==
    LET g == get_user(f, u, TelegramName(u))
    IN  IF kind = "deposit"
        THEN deposit(g.file, g.user, LedgerAmount * Dollar, "virtual_balance",
                     now).file
        ELSE IF kind = "withdraw"
        THEN withdraw(g.file, g.user, LedgerAmount * Dollar,
                      BetBalanceType(g.user)).file
        ELSE IF kind = "toggle_balance_type"
        THEN toggle_balance_type(g.file, g.user)
        ELSE g.file

\* the operation up to its save_users: load_users and the change of the
\* record of u in the loaded dict (lines 183-219, 231-237, 256-258,
\* 286-296)
ledger_load(u, kind) ==
    /\ HandlerFree
    /\ (kind = "get_user") = (u \notin DOMAIN load_users(file))
    /\ threads' = [threads EXCEPT
                     !.hand = [pc |-> "save", uid |-> u, kind |-> kind,
                               users |-> LedgerContent(file, u, kind)]]
    /\ ev' = [op |-> "ledger_load", uid |-> u, kind |-> kind]
    /\ UNCHANGED <<file, users_db, now, games, payments>>

\* save_users(users), lines 122-138: the loaded dict, with the change,
\* replaces the content of the file
ledger_save ==
    /\ threads.hand.pc = "save"
    /\ file' = threads.hand.users
    /\ threads' = [threads EXCEPT !.hand = Idle]
    /\ ev' = [op |-> "ledger_save", uid |-> threads.hand.uid,
              kind |-> threads.hand.kind]
    /\ users_db' = Fresh(users_db, threads.hand.uid)
    /\ UNCHANGED <<now, games, payments>>

\* ledger operations of the handlers while invoices are paid and the
\* check_invoices job credits them on its thread
ShareNext ==
    \/ \E u \in UserIds, kind \in LedgerKinds : ledger_load(u, kind)
    \/ ledger_save
    \/ \E u \in UserIds : DepositAmount(u, 10 * Dollar, TRUE)
    \/ \E i \in 1..MaxInvoices : ProviderPays(i)
    \/ CheckInvoices

SpecShare == Init /\ [][ShareNext]_vars

\* ------------------------------------------------- the admin's credits

\* the amounts and the names, after the @, of the messages sent to
\* admin_add_balance_handler and admin_add_virtual_handler
AdminTexts == {"0", "10", "nan"}

AdminNames == {"Al", "bo", "zed"}

\* accounts are created by /start; every user sends "@name amount" to the
\* two handlers
AdminNext ==
    \/ \E u \in UserIds : Start(u)
    \/ \E sender \in UserIds, name \in AdminNames, text \in AdminTexts,
          balance_type \in BalanceTypes :
          AdminAdd(sender, name, float(text), balance_type)

SpecAdmin == Init /\ [][AdminNext]_vars

\* the sessions of u in the three registries
C15_Sessions(r, m, d, u) ==
    << IF u \in DOMAIN r THEN <<r[u]>> ELSE <<>>,
       IF u \in DOMAIN m THEN <<m[u]>> ELSE <<>>,
       IF u \in DOMAIN d THEN <<d[u]>> ELSE <<>> >>

\* C15: a game action (Crash cash-out, Ladder choice, Dice choice) sent by a
\* user other than the one its callback names is rejected and changes
\* nothing: the owner's session, the owner's balances and the sender's
\* balances are unchanged.
C15_NonOwnerRejected ==
    [][\A s \in UserIds, t \in UserIds :
          (/\ s # t
           /\ ev'.uid = s
           /\ \/ ev'.op = "rocket_cashout" /\ rocket_cashout(s, t, TRUE)
              \/ /\ ev'.op = "matrix_choice"
                 /\ \E k \in MatrixKinds, ok \in BOOLEAN, b \in BombDraws :
                       matrix_choice(s, t, k, ok, b)
              \/ /\ ev'.op = "dice_choice"
                 /\ \E c \in DiceChoices, roll \in 1..6 :
                       dice_choice(s, t, c, roll, TRUE))
          => /\ ev'.result = "rejected"
             /\ C15_Sessions(rocket', matrix', dice', t)
                  = C15_Sessions(rocket, matrix, dice, t)
             /\ C15_Balances(file', t) = C15_Balances(file, t)
             /\ C15_Balances(file', s) = C15_Balances(file, s)]_vars

\* the other user has pressed a button of a running session
C15_Pressed ==
    /\ ev.op \in {"rocket_cashout", "matrix_choice", "dice_choice"}
    /\ ev.result = "rejected"
    /\ ev.uid = 2
    /\ 1 \in DOMAIN matrix
    /\ C15_Balances(file, 2)[1] > 0

\* C16: a Crash session transitions to CRASHED at most once, at a tick whose
\* computed multiplier is >= crash_at, with no payout; every later tick of
\* that session's driver changes nothing: not the ledger, not the session
\* store, and it schedules no further tick.
C16_CrashedOnce ==
    /\ [](\A sid \in DOMAIN outcome :
             /\ outcome[sid].crashed <= 1
             /\ outcome[sid].crashed = 1 => outcome[sid].paid = 0)
    /\ [][\A u \in DOMAIN rocket :
             outcome'[rocket[u].sid].crashed > outcome[rocket[u].sid].crashed
             => /\ ev'.op = "tick"
                /\ file' = file
                /\ \E c \in chains :
                      CurrentMultiplier(rocket[u].crash_at, now - c.start_time,
                                        c.crash_time) >= rocket[u].crash_at]_vars
    /\ [][\A c \in chains :
             (/\ outcome[c.sid].crashed > 0
              /\ ev'.op = "tick"
              /\ \E delivered \in BOOLEAN : update_multiplier(c, delivered))
             => /\ file' = file
                /\ rocket' = rocket
                /\ c \notin chains']_vars

\* C17: ledger operations on one account are atomic read-modify-write: when
\* the deposit of the reconciliation job overlaps a handler's deposit or
\* withdrawal on the same account, the stored balance after the job's
\* deposit is the stored balance before it plus the credit; no update made
\* in between is lost.
C17_NoLostUpdate ==
    [][ev'.op = "check_invoices_deposit"
       => LET j == threads.job
              u == j.user.user_id
          IN  file'[u].balance = file[u].balance + invoices[j.i].amount]_vars

C19_Funds(f, u) == f[u].balance + f[u].virtual_balance

\* C19: when a session's start-up or driver cannot deliver its message (the
\* first message of a Crash or Dice game is not sent, or a multiplier update
\* fails for good), the session is removed from the session store with no
\* payout, so that nothing of it is left in the way of a new game.
C19_UndeliveredDropped ==
    [][\A u \in UserIds :
          /\ (ev'.op = "tick" /\ ev'.uid = u /\ ev'.result = "dropped")
             => /\ u \notin DOMAIN rocket'
                /\ file' = file
                /\ outcome' = outcome
                /\ chains' # chains /\ chains' \subseteq chains
          /\ \A a \in Stakes :
                (/\ ev'.op = "rocket_bet" /\ ev'.uid = u /\ ev'.result = "ok"
                 /\ \E r \in RandDraws : rocket_bet(u, a, r, FALSE))
                => /\ u \notin DOMAIN rocket'
                   /\ chains' = chains
                   /\ outcome'[nextSid] = NoOutcome
                   /\ C19_Funds(file', u) = C19_Funds(file, u) - a
          /\ \A a \in Stakes :
                (/\ ev'.op = "dice_bet" /\ ev'.uid = u /\ ev'.result = "ok"
                 /\ dice_bet(u, a, FALSE))
                => /\ u \notin DOMAIN dice'
                   /\ outcome'[nextSid] = NoOutcome
                   /\ C19_Funds(file', u) = C19_Funds(file, u) - a]_vars

\* a multiplier update could not be delivered and the session is gone
C19_Dropped ==
    /\ ev.op = "tick"
    /\ ev.result = "dropped"
    /\ ev.uid \notin DOMAIN rocket
    /\ nextSid <= MaxSessions

\* the accounts of the user file as its next reader or its writer has them:
\* the content being written while a save is under way, else what
\* load_users returns
C20_Accounts(f, th) ==
    IF f = Truncated /\ th.hand.pc = "dump" THEN th.hand.users
    ELSE load_users(f)

\* C20: once an account exists it is never deleted or reset: no load or
\* save of the user file, a load made while another save has emptied the
\* file and a save that fails part-way included, removes an account or
\* replaces its balance with zero.
C20_AccountsKept ==
    [][\A u \in DOMAIN C20_Accounts(file, threads) :
          /\ u \in DOMAIN C20_Accounts(file', threads')
          /\ C20_Accounts(file, threads)[u].balance > 0
             => C20_Accounts(file', threads')[u].balance > 0]_vars

\* the balance of u in the user file, 0 for a user without a record
C21_Balance(f, u, balance_type) ==
    IF u \in DOMAIN f THEN f[u][balance_type] ELSE 0

\* the session a bet handler has just put into its registry
C21_Created(op, r, m, d, u) ==
    IF op = "rocket_bet" THEN r[u] ELSE IF op = "matrix_bet" THEN m[u] ELSE d[u]

\* C21: a session of any kind is created only for a stake with MIN_BET <=
\* stake <= MAX_BET and stake <= the owner's balance in the active currency,
\* and creating it lowers that balance by exactly the stake: there is never
\* a session in the store whose stake was not debited.
C21_StakeDebited ==
    [][(ev'.op \in BetOps /\ ev'.result = "ok" /\ nextSid' > nextSid)
       => LET u == ev'.uid
              g == C21_Created(ev'.op, rocket', matrix', dice', u)
              before == C21_Balance(file, u, g.balance_type)
          IN  /\ g.sid = nextSid
              /\ g.bet # NaN
              /\ MIN_BET <= g.bet /\ g.bet <= MAX_BET * Dollar
              /\ g.bet <= before
              /\ C21_Balance(file', u, g.balance_type) = before - g.bet]_vars

\* the session of u in the registry g is no longer there after the step
C22_Gone(g, h, u) == u \notin DOMAIN h \/ h[u].sid # g[u].sid

\* C22: an active session leaves the session store only through its own
\* resolution (win or loss) or a forced clean-up after a delivery failure of
\* its own messages; an error raised while handling another update of the
\* same user, or the user placing a new bet, never removes an unresolved
\* session.
C22_LeavesByResolution ==
    [][/\ \A u \in DOMAIN rocket :
             C22_Gone(rocket, rocket', u)
             => /\ ev'.uid = u
                /\ \/ ev'.op = "tick" /\ ev'.result \in {"crashed", "dropped"}
                   \/ ev'.op = "rocket_cashout" /\ ev'.result = "paid"
       /\ \A u \in DOMAIN matrix :
             C22_Gone(matrix, matrix', u)
             => /\ ev'.uid = u
                /\ ev'.op = "matrix_choice"
                /\ ev'.result \in {"paid", "lost", "dropped"}
       /\ \A u \in DOMAIN dice :
             C22_Gone(dice, dice', u)
             => /\ ev'.uid = u
                /\ ev'.op = "dice_choice"
                /\ ev'.result \in {"paid", "lost"}]_vars

\* the session numbered sid is in one of the registries r, m, d
C23_Active(r, m, d, sid) ==
    \/ \E u \in DOMAIN r : r[u].sid = sid
    \/ \E u \in DOMAIN m : m[u].sid = sid
    \/ \E u \in DOMAIN d : d[u].sid = sid

\* C23: after a session has been resolved and removed, a further action for
\* it (a Dice selection, a Ladder choice or cash-out, a Crash cash-out) is
\* answered as finished, changes no balance and creates no session: a
\* payout is made only for a session that is still in the store and has
\* neither paid nor crashed before, so that each session pays at most once.
C23_PaysOnce ==
    [][/\ \A sid \in DOMAIN outcome :
             outcome'[sid].paid > outcome[sid].paid
             => /\ outcome[sid] = NoOutcome
                /\ C23_Active(rocket, matrix, dice, sid)
       /\ (/\ ev'.op \in {"rocket_cashout", "matrix_choice", "dice_choice"}
           /\ ev'.result = "rejected")
          => /\ \A u \in DOMAIN file : file'[u] = file[u]
             /\ <<rocket', matrix', dice', nextSid'>>
                  = <<rocket, matrix, dice, nextSid>>]_vars

\* the session of u in registry g was paid win in this step and left g
C24_Kept(g, u, win) ==
    /\ file'[u][g[u].balance_type] = file[u][g[u].balance_type] + win
    /\ u \notin DOMAIN g'
    /\ outcome'[g[u].sid].paid = outcome[g[u].sid].paid + 1

C25_Running(r, sid) == \E u \in DOMAIN r : r[u].sid = sid

\* every Crash session leaves the session store
C25_Removed ==
    \A sid \in 1..MaxSessions : C25_Running(rocket, sid) ~> ~C25_Running(rocket, sid)

\* a tick of its own chain at or after crash_at * 3 seconds from the start
\* crashes a session that is still running
C25_Timely ==
    [][\A c \in chains, ok \in BOOLEAN :
          (/\ ev'.op = "tick"
           /\ C25_Running(rocket, c.sid)
           /\ (now - c.start_time) * 1000 >= c.crash_time
           /\ update_multiplier(c, ok))
          => /\ ~C25_Running(rocket', c.sid)
             /\ outcome'[c.sid].crashed = 1]_vars

\* a chain whose session is gone does not reschedule itself
C25_Stops ==
    [][\A c \in chains, ok \in BOOLEAN :
          (/\ ev'.op = "tick"
           /\ ~C25_Running(rocket, c.sid)
           /\ update_multiplier(c, ok))
          => c \notin chains']_vars

\* C25: while scheduled ticks keep firing every Crash session eventually
\* leaves the session store, a session that is not cashed out is crashed by
\* the first tick at or after crash_at * 3 seconds from its start, and a
\* tick chain stops rescheduling itself once its session is gone.
C25_TicksEndSession == C25_Removed /\ C25_Timely /\ C25_Stops

\* the multiplier m, in thousandths, is one a cash-out of game may pay
C26_Below(game, m) == 1000 <= m /\ m < game.crash_at

\* C26: the multiplier paid by a Crash cash-out is at least 1.0 and strictly
\* below the crash point of the session, also when the cash-out reads the
\* multiplier between a tick's store of a value at or above the crash point
\* and that tick's marking the session crashed.
C26_PaidBelowCrashPoint ==
    [][/\ (ev'.op = "rocket_cashout" /\ ev'.result = "paid")
          => C26_Below(rocket[ev'.uid], rocket[ev'.uid].multiplier)
       /\ (ev'.op = "rocket_cashout_pay")
          => /\ C26_Below(threads.hand.game, threads.hand.game.multiplier)
             /\ file'[threads.hand.uid][threads.hand.game.balance_type]
                  < file[threads.hand.uid][threads.hand.game.balance_type]
                      + RocketWin(threads.hand.game.bet, threads.hand.game.crash_at)]_vars

\* C27: a tick chain started for one Crash session does not change a later
\* Crash session of the same user: a tick that only the chain of another
\* session can have made leaves the stored session as it was (multiplier not
\* set, not crashed, not deleted).
C27_OwnSessionOnly ==
    [][\A c \in chains, ok \in BOOLEAN :
          (/\ ev'.op = "tick"
           /\ c.uid \in DOMAIN rocket
           /\ rocket[c.uid].sid # c.sid
           /\ update_multiplier(c, ok)
           /\ \A d \in chains \ {c}, k \in BOOLEAN : ~update_multiplier(d, k))
          => rocket' = rocket]_vars

\* C28: every advance of a Ladder session from level k to level k+1 is made
\* by a safe choice on the keyboard sent for level k, with the bomb position
\* drawn for that level: a safe button of an earlier level's keyboard does
\* not advance the session.
C28_AdvanceOnCurrentKeyboard ==
    [][\A u \in Funded, d \in LadderData, ok \in BOOLEAN, b \in LadderBombs :
          (/\ ev'.op = "matrix_choice" /\ ev'.uid = u /\ ev'.result = "next"
           /\ matrix_choice(u, u, d, ok, b))
          => <<d, u>> \in MatrixKeyboard(u, matrix[u].current_level,
                                         matrix[u].bomb_position)]_vars

\* a stored Ladder session has a level that indexes MATRIX_MULTIPLIERS
C29_LevelInTable ==
    \A u \in DOMAIN matrix :
        0 <= matrix[u].current_level /\ matrix[u].current_level <= MATRIX_LEVELS - 1

\* an owner's cash-out at level k pays stake x 1.2^k and removes the session
C29_CashoutPays ==
    [][\A u \in UserIds, b \in BombDraws, ok \in BOOLEAN :
          (/\ ev'.op = "matrix_choice" /\ ev'.uid = u
           /\ ev'.kind = "matrix_cashout"
           /\ u \in DOMAIN matrix
           /\ matrix_choice(u, u, "matrix_cashout", ok, b))
          => /\ file'[u][matrix[u].balance_type]
                  = file[u][matrix[u].balance_type]
                      + MulDiv(matrix[u].bet, Pow(6, matrix[u].current_level),
                               Pow(5, matrix[u].current_level))
             /\ u \notin DOMAIN matrix']_vars

\* C29: a Ladder session in the session store between handler invocations
\* has a level from 0 to 9, a valid index of the 10-entry multiplier table,
\* and an owner's cash-out at level k pays exactly stake x 1.2^k and removes
\* the session.
C29_LevelAndCashout == []C29_LevelInTable /\ C29_CashoutPays

\* C30: the keyboard sent for a Ladder level does not depend on that level's
\* bomb position: with any other position drawn, the buttons (labels and
\* callback data) sent for the stored session would be the same.
C30_KeyboardHidesBomb ==
    \A u \in DOMAIN matrix, b \in MatrixCells :
        MatrixButtons(u, matrix[u].current_level, matrix[u].bomb_position)
          = MatrixButtons(u, matrix[u].current_level, b)

\* the currency that is not bt
C31_Other(bt) == IF bt = "balance" THEN "virtual_balance" ELSE "balance"

\* the session of u in registry g was paid in this step, in its own currency
C31_PaidInOwn(g, u) ==
    /\ file'[u][g[u].balance_type] > file[u][g[u].balance_type]
    /\ file'[u][C31_Other(g[u].balance_type)] = file[u][C31_Other(g[u].balance_type)]

\* the session u has in registry g after this step was staked in its own
\* currency
C31_StakedInOwn(g, u) ==
    (u \in DOMAIN g' /\ u \in DOMAIN file)
    => /\ file'[u][g'[u].balance_type] < file[u][g'[u].balance_type]
       /\ file'[u][C31_Other(g'[u].balance_type)]
            = file[u][C31_Other(g'[u].balance_type)]

\* C31: a session is settled in the currency its stake was withdrawn from:
\* the currency switch changes no session and no balance, a bet records the
\* currency it debits, and a payout credits the recorded currency and leaves
\* the other balance alone, whatever the active currency is by then.
C31_SettledInStakeCurrency ==
    [][/\ ev'.op = "change_balance"
          => /\ <<rocket', matrix', dice'>> = <<rocket, matrix, dice>>
             /\ \A u \in DOMAIN file :
                   /\ file'[u].balance = file[u].balance
                   /\ file'[u].virtual_balance = file[u].virtual_balance
       /\ (ev'.op = "rocket_bet" /\ ev'.result = "ok") => C31_StakedInOwn(rocket, ev'.uid)
       /\ (ev'.op = "matrix_bet" /\ ev'.result = "ok") => C31_StakedInOwn(matrix, ev'.uid)
       /\ (ev'.op = "dice_bet" /\ ev'.result = "ok") => C31_StakedInOwn(dice, ev'.uid)
       /\ (ev'.op = "rocket_cashout" /\ ev'.result = "paid")
          => C31_PaidInOwn(rocket, ev'.uid)
       /\ (ev'.op = "matrix_choice" /\ ev'.result = "paid")
          => C31_PaidInOwn(matrix, ev'.uid)
       /\ (ev'.op = "dice_choice" /\ ev'.result = "paid")
          => C31_PaidInOwn(dice, ev'.uid)]_vars

\* the currency was switched while a Dice session staked in the other
\* currency is active
C31_SwitchedInSession ==
    /\ ev.op = "change_balance"
    /\ ev.uid \in DOMAIN dice
    /\ dice[ev.uid].balance_type # BetBalanceType(file[ev.uid])

\* the persisted counter of every account is a number from 0 to the cap
C32_CounterInRange ==
    \A u \in DOMAIN file :
        /\ file[u].daily_virtual_deposited # NaN
        /\ 0 <= file[u].daily_virtual_deposited
        /\ file[u].daily_virtual_deposited <= DAILY_VIRTUAL_LIMIT * Dollar

\* every credit to a virtual balance is counted: within a window the counter
\* grows by the credit, and a credit that opens a window starts it at the
\* credit
C32_CreditsCounted ==
    [][\A u \in DOMAIN file :
          (u \in DOMAIN file' /\ file'[u].virtual_balance # file[u].virtual_balance)
          => /\ file'[u].virtual_balance # NaN
             /\ file'[u].virtual_balance > file[u].virtual_balance
                => file'[u].daily_virtual_deposited
                     = (IF file'[u].last_virtual_deposit_time
                             = file[u].last_virtual_deposit_time
                        THEN file[u].daily_virtual_deposited ELSE 0)
                       + file'[u].virtual_balance - file[u].virtual_balance]_vars

\* C32: in every reachable state each account's persisted
\* daily_virtual_deposited is between 0 and the daily cap of 100 $, and
\* within one issuance window the virtual credits to the account (/add, admin
\* credits) sum to at most 100 $, every credit being counted.
C32_DailyCap == []C32_CounterInRange /\ C32_CreditsCounted

\* the four stored amounts and times of an account
C33_Stored(rec) ==
    <<rec.virtual_balance, rec.balance, rec.daily_virtual_deposited,
      rec.last_virtual_deposit_time>>

\* C33: a virtual deposit that fails with the limit error leaves the
\* persisted account unchanged: virtual balance, real balance,
\* daily_virtual_deposited and last_virtual_deposit_time keep their stored
\* values.
C33_FailedDepositKeepsAccount ==
    [][(/\ ev'.op \in {"deposit", "add"}
        /\ ~ev'.ok
        /\ ev'.op = "deposit" => ev'.balance_type = "virtual_balance"
        /\ ev'.op = "add" => ~LessEq(ev'.amount, 0))
       => C33_Stored(file'[ev'.uid]) = C33_Stored(Stored(file, ev'.uid))]_vars

\* a virtual deposit has just failed a day after 95 $ were issued: the
\* window had elapsed, the counter and the window start are as they were
C33_FailedAfterWindow ==
    /\ ev.op = "deposit" /\ ~ev.ok /\ ev.balance_type = "virtual_balance"
    /\ file[ev.uid].daily_virtual_deposited = 95 * Dollar
    /\ file[ev.uid].last_virtual_deposit_time # None
    /\ now - file[ev.uid].last_virtual_deposit_time >= VIRTUAL_DEPOSIT_RESET

\* the seconds from now to the end of the issuance window of the stored
\* account rec (a window that has not been opened ends a day from now)
C34_WindowLeft(rec) ==
    (IF rec.last_virtual_deposit_time = None THEN now
     ELSE rec.last_virtual_deposit_time) + VIRTUAL_DEPOSIT_RESET - now

\* C34: whenever a virtual deposit fails with the limit error, the wait it
\* reports is the time left until the current issuance window ends, in whole
\* minutes, a duration between 0 and 24 hours, also when the window had
\* already elapsed and the amount alone exceeds the cap.
C34_WaitInWindow ==
    [][(ev'.op = "deposit" /\ ev'.balance_type = "virtual_balance" /\ ~ev'.ok)
       => LET w == ev'.wait.hours * 3600 + ev'.wait.minutes * 60
          IN  /\ 0 <= w /\ w <= VIRTUAL_DEPOSIT_RESET
              /\ 0 <= ev'.wait.hours /\ 0 <= ev'.wait.minutes
              /\ w = (C34_WindowLeft(Stored(file, ev'.uid)) \div 60) * 60]_vars

\* the answer a reports invoice i as paid
C35_Reported(a, i) ==
    /\ a.kind = "items"
    /\ \E k \in 1..Len(a.items) :
          /\ a.items[k].dict
          /\ a.items[k].status = "paid"
          /\ a.items[k].invoice_id = i

\* the amounts of the invoices 1..i of the set due that u owns
RECURSIVE C35_Sum(_, _, _)
C35_Sum(u, due, i) ==
    IF i = 0 THEN 0
    ELSE C35_Sum(u, due, i - 1)
           + (IF i \in due /\ invoices[i].user_id = u THEN invoices[i].amount
              ELSE 0)

\* C35: a run of check_invoices credits an account only for an invoice that
\* the provider reports with status paid, whose id is in active_invoices and
\* whose paid flag is false: the recorded amount goes to the real balance of
\* the recorded owner and the flag is set; items with another status or an
\* unknown id change no balance and no flag.
C35_CreditOnlyPaid ==
    [][\A a \in Answers :
          (/\ ev'.op = "check_invoices_answer"
           /\ ev'.kind = a.kind
           /\ check_invoices(a, 0))
          => LET due == {i \in DOMAIN invoices :
                            ~invoices[i].paid /\ C35_Reported(a, i)}
             IN  /\ \A u \in UserIds :
                       RealOf(file', u)
                         = RealOf(file, u) + C35_Sum(u, due, MaxInvoices)
                 /\ \A u \in DOMAIN file :
                       file'[u].virtual_balance = file[u].virtual_balance
                 /\ DOMAIN invoices' = DOMAIN invoices
                 /\ \A i \in DOMAIN invoices :
                       invoices'[i]
                         = [invoices[i] EXCEPT !.paid = @ \/ i \in due]]_vars

\* a run has credited one invoice of 20 $ to its owner and left the other
\* invoice, not reported as paid, unflagged
C35_OneOfTwoCredited ==
    /\ ev.op = "check_invoices_answer"
    /\ \E i, j \in DOMAIN invoices :
          /\ invoices[i].paid /\ invoices[i].amount = 20 * Dollar
          /\ file[invoices[i].user_id].balance = 20 * Dollar
          /\ ~invoices[j].paid
          /\ invoices[j].user_id # invoices[i].user_id
          /\ file[invoices[j].user_id].balance = 0

\* the answer a without its items that are no records
C36_Records(a) ==
    [a EXCEPT !.items = SelectSeq(a.items, LAMBDA item : item.dict)]

\* C36: a failed, not-ok or malformed answer of the provider (HTTP error,
\* ok = false, items that are no list) changes no balance and no paid flag,
\* and an item that is no record is skipped: the run does what it does on
\* the same answer without that item, so the items after it are processed.
C36_MalformedSkipped ==
    [][\A a \in Answers :
          (/\ ev'.op = "check_invoices_answer"
           /\ ev'.kind = a.kind
           /\ check_invoices(a, 0))
          => /\ a.kind \in Failures => (file' = file /\ invoices' = invoices)
             /\ a.kind = "items"
                => LET st == CheckItems([file |-> file, inv |-> invoices,
                                         credited |-> {}],
                                        C36_Records(a).items, 1, 0, now)
                   IN  file' = st.file /\ invoices' = st.inv]_vars

\* a run whose answer carried an item that is no record has credited an
\* invoice listed in the same answer
C36_CreditedBesideMalformed ==
    /\ ev.op = "check_invoices_answer" /\ ev.kind = "items"
    /\ ev.skipped = 1
    /\ \E i \in ev.credited :
          invoices[i].paid /\ file[invoices[i].user_id].balance > 0

\* the real balance of the account of u, 0 while it has none
C37_Balance(f, u) == IF u \in DOMAIN f THEN f[u].balance ELSE 0

\* the amounts of the invoices in s that belong to u, summed
RECURSIVE C37_Sum(_, _)
C37_Sum(s, u) ==
    IF s = {} THEN 0
    ELSE LET i == CHOOSE x \in s : TRUE
         IN  (IF invoices[i].user_id = u THEN invoices[i].amount ELSE 0)
             + C37_Sum(s \ {i}, u)

C38_OthersKept ==
    [][ev'.op \in {"ledger_load", "ledger_save"}
          => \A b \in DOMAIN file \ {ev'.uid} :
                b \in DOMAIN file' /\ file'[b] = file[b]]_vars

\* the stored record of u without its username, the record of a new
\* account while u has none
C39_Money(f, u) ==
    IF u \in DOMAIN f
    THEN [balance |-> f[u].balance, virtual_balance |-> f[u].virtual_balance,
          use_virtual |-> f[u].use_virtual,
          daily_virtual_deposited |-> f[u].daily_virtual_deposited,
          last_virtual_deposit_time |-> f[u].last_virtual_deposit_time]
    ELSE [balance |-> 0, virtual_balance |-> 0, use_virtual |-> FALSE,
          daily_virtual_deposited |-> 0, last_virtual_deposit_time |-> None]

\* C39: an administrative credit changes the balances, the counter or the
\* window of an account only when the sender is an administrator, the amount
\* is above 0 and the name is the username of a stored account, and then
\* only those of that account, by the amount, through deposit; a request of
\* any other kind changes no account
C39_CreditOnlyAllowed ==
    [][ev'.op = "admin_add"
          => LET stored == get_user(file, ev'.uid, TelegramName(ev'.uid)).file
                 found == FindByUsername(stored, Lower(ev'.name))
                 changed == {u \in UserIds :
                                C39_Money(file', u) # C39_Money(file, u)}
             IN  changed # {}
                   => /\ ev'.uid \in ADMIN_IDS
                      /\ Less(0, ev'.amount)
                      /\ found # {}
                      /\ changed \subseteq found
                      /\ \A u \in changed :
                            C39_Money(file', u)[ev'.balance_type]
                              = C39_Money(file, u)[ev'.balance_type]
                                  + ev'.amount]_vars

====
